---- MODULE Spec2Model ----
(***************************************************************************)
(* Model of the UPS collection client (src/scripts/ups-client.ts) and of   *)
(* the command surface that drives it (src/scripts/cli.ts).                *)
(*                                                                         *)
(* The state is the session descriptor file (SESSION_PATH), the browser    *)
(* processes that were launched, and the three handles of one UPSClient    *)
(* object (browser, context, page).  Every public operation of the client  *)
(* is one action; what the remote site and the browser library answer      *)
(* (buttons present, waits timing out, connect succeeding) is drawn from   *)
(* small sets.  Operations are pure operators on a "world" record, so that *)
(* fillForm can call login, login can call ensureBrowser, and book can     *)
(* call fillForm and reset, exactly as in the source.                      *)
(***************************************************************************)
EXTENDS Integers, Sequences, FiniteSets, TLC

VARIABLES
    endpointExposed, \* does a launched Browser object answer wsEndpoint()?
    canLaunch,       \* can chromium.launch start a headed browser on this host?
    session,         \* the file at SESSION_PATH
    browsers,        \* browser processes, by launch number
    launches,        \* how many browsers were launched so far
    browser,         \* this.browser  (0 = null, else a launch number)
    context,         \* this.context
    page,            \* this.page
    opened,          \* running browsers this client object launched or connected to
    sinceFill,       \* how the last submission since the last successful fill ended
    last,            \* what the last operation did and returned
    calc,            \* a call of one of the clock and form functions: input, output
    race,            \* processes working on the file at SESSION_PATH at the same time
    run              \* one invocation, wait by wait

vars == <<endpointExposed, canLaunch, session, browsers, launches, browser, context, page,
          opened, sinceFill, last, calc, race, run>>

\* The cap on browser launches in one behaviour.
MaxBrowsers == 2

BrowserIds == 1..MaxBrowsers

----------------------------------------------------------------------------
\* The session descriptor file.

\* No file at SESSION_PATH.
NoSession ==
    [kind |-> "none", wsEndpoint |-> 0, createdAt |-> 0,
     formFilled |-> FALSE, loggedIn |-> FALSE]

\* A file at SESSION_PATH that JSON.parse rejects.
MalformedSession ==
    [kind |-> "malformed", wsEndpoint |-> 0, createdAt |-> 0,
     formFilled |-> FALSE, loggedIn |-> FALSE]

\* interface SessionInfo, as written by ensureBrowser after a launch.
SessionInfo(endpoint) ==
    [kind |-> "session", wsEndpoint |-> endpoint, createdAt |-> endpoint,
     formFilled |-> FALSE, loggedIn |-> FALSE]

\* A browser process and its page: loc is "blank" (about:blank of a new page) or
\* "ups" (a page of the site, after a navigation); filled = a fillForm ran
\* through on this page.
\* A browser process that is not running (never launched, closed or crashed).
ClosedBrowser ==
    [alive |-> FALSE, hasPage |-> FALSE, loc |-> "blank", filled |-> FALSE]

\* A running browser whose page was closed.
PagelessBrowser ==
    [alive |-> TRUE, hasPage |-> FALSE, loc |-> "blank", filled |-> FALSE]

\* The browser right after launch + newContext + newPage.
FreshBrowser ==
    [alive |-> TRUE, hasPage |-> TRUE, loc |-> "blank", filled |-> FALSE]

\* The world an operation works on: the state variables as one record, plus
\* the trail of ensureBrowser calls of the running operation (acq), whether
\* the launch cap was exceeded (over), whether an ensureBrowser call rejected
\* because the launch failed (rejected), and whether either happened (halted).
World ==
    [session |-> session, browsers |-> browsers, launches |-> launches,
     browser |-> browser, context |-> context, page |-> page,
     opened |-> opened, acq |-> <<>>, over |-> FALSE, rejected |-> FALSE,
     halted |-> FALSE]

----------------------------------------------------------------------------
\* What the environment can answer.

\* chromium.connectOverCDP(session.wsEndpoint): returns or rejects.  It always
\* rejects when the browser behind the endpoint is gone.
ConnectAnswers == {"ok", "throws"}

\* login(): where it ends.  "ok" is the race of waitForURL / waitForSelector
\* resolving; the others are the four ways it throws.
LoginOutcomes == {"ok", "gotoThrows", "noUsername", "noPassword", "timeout"}

\* fillForm() after login: page.goto(UPS_FORM_URL) rejects, the try block
\* throws (caught, error result), or everything runs through.
FillOutcomes == {"ok", "gotoThrows", "formError"}

\* submit(): the await inside the try block that rejects, if any.
SubmitFailures == {"none", "nextClick", "nextWait", "reviewShot", "submitClick", "submitWait"}

\* book(): was a button clicked (by a selector of the list or, when none
\* clicked, by the scripted scan over all buttons), and the await that rejects.
ClickAnswers == {"clicked", "none"}
BookFailures == {"none", "afterNext", "afterSubmit"}

----------------------------------------------------------------------------
\* UPSClient, internal methods.

\* updateSession(updates) that writes the file also when none exists.
updateSessionCreate(w, updates) ==
    [w EXCEPT !.session =
        [f \in DOMAIN w.session |->
            IF f \in DOMAIN updates THEN updates[f]
            ELSE IF f = "kind" THEN "session" ELSE w.session[f]]]

\* updateSession(updates): merge into the descriptor when the file exists.
\* (On a file JSON.parse rejects the source throws; every caller runs after
\* an ensureBrowser of the same operation, which leaves no such file.)
updateSession(w, updates) ==
    IF w.session.kind = "session"
    THEN [w EXCEPT !.session =
            [f \in DOMAIN w.session |->
                IF f \in DOMAIN updates THEN updates[f] ELSE w.session[f]]]
    ELSE w

\* ensureBrowser() with the descriptor written after a launch only when no
\* file is there: a descriptor that the try block left in place survives.
ensureBrowserWriteOnce(w, conn) ==
    LET s         == w.session
        found     == s.kind /= "none"
        connected == /\ s.kind = "session"
                     /\ w.browsers[s.wsEndpoint].alive
                     /\ conn = "ok"
        reuse     == connected /\ w.browsers[s.wsEndpoint].hasPage
        threw     == found /\ ~connected
        afterTry  == IF threw THEN NoSession ELSE s
        openedTry == IF connected THEN w.opened \cup {s.wsEndpoint} ELSE w.opened
        n         == w.launches + 1
        afterRun  == IF endpointExposed /\ afterTry.kind = "none"
                     THEN SessionInfo(n) ELSE afterTry
    IN  IF reuse
        THEN [w EXCEPT !.browser = s.wsEndpoint, !.context = s.wsEndpoint,
                       !.page = s.wsEndpoint,
                       !.opened = openedTry,
                       !.acq = Append(@, [found |-> s.kind, connected |-> TRUE,
                                          reconnected |-> TRUE, fresh |-> 0,
                                          after |-> s,
                                          got |-> w.browsers[s.wsEndpoint]])]
        ELSE IF ~canLaunch
        THEN [w EXCEPT !.rejected = TRUE, !.halted = TRUE]
        ELSE IF n > MaxBrowsers
        THEN [w EXCEPT !.over = TRUE, !.halted = TRUE]
        ELSE [w EXCEPT !.session = afterRun,
                       !.browsers[n] = FreshBrowser,
                       !.launches = n,
                       !.browser = n, !.context = n, !.page = n,
                       !.opened = openedTry \cup {n},
                       !.acq = Append(@, [found |-> s.kind, connected |-> connected,
                                          reconnected |-> FALSE, fresh |-> n,
                                          after |-> afterRun,
                                          got |-> FreshBrowser])]

\* ensureBrowser(): reconnect to the persisted session or launch a browser.
\* On a host where the launch fails the call rejects at chromium.launch; no
\* descriptor exists on such a host (only a launch writes one), so the try
\* block before it has found no file and has changed nothing.
\* Sets this.browser/context/page; the page it returns is w.page of the result.
\* Each return appends to w.acq what the call found (the kind of file, whether
\* the connect returned), what it did (reconnected, or launched browser fresh),
\* the descriptor it left (after) and the browser of the page it returned (got).
ensureBrowser(w, conn) ==
    LET s         == w.session
        found     == s.kind /= "none"
        connected == /\ s.kind = "session"
                     /\ w.browsers[s.wsEndpoint].alive
                     /\ conn = "ok"
        reuse     == connected /\ w.browsers[s.wsEndpoint].hasPage
        threw     == found /\ ~connected
        afterTry  == IF threw THEN NoSession ELSE s
        openedTry == IF connected THEN w.opened \cup {s.wsEndpoint} ELSE w.opened
        n         == w.launches + 1
        afterRun  == IF endpointExposed THEN SessionInfo(n) ELSE afterTry
    IN  IF reuse
        THEN [w EXCEPT !.browser = s.wsEndpoint, !.context = s.wsEndpoint,
                       !.page = s.wsEndpoint,
                       !.opened = openedTry,
                       !.acq = Append(@, [found |-> s.kind, connected |-> TRUE,
                                          reconnected |-> TRUE, fresh |-> 0,
                                          after |-> s,
                                          got |-> w.browsers[s.wsEndpoint]])]
        ELSE IF ~canLaunch
        THEN [w EXCEPT !.rejected = TRUE, !.halted = TRUE]
        ELSE IF n > MaxBrowsers
        THEN [w EXCEPT !.over = TRUE, !.halted = TRUE]
        ELSE [w EXCEPT !.session = afterRun,
                       !.browsers[n] = FreshBrowser,
                       !.launches = n,
                       !.browser = n, !.context = n, !.page = n,
                       !.opened = openedTry \cup {n},
                       !.acq = Append(@, [found |-> s.kind, connected |-> connected,
                                          reconnected |-> FALSE, fresh |-> n,
                                          after |-> afterRun,
                                          got |-> FreshBrowser])]

\* login(): acquires its own page, navigates it to the login URL and runs the
\* two-step login.  threw = the call ended in an exception.
login(w, conn, outcome) ==
    LET w1 == ensureBrowser(w, conn)
        p  == w1.page
    IN  IF w1.halted
        THEN [w |-> w1, threw |-> TRUE, page |-> 0]
        ELSE IF outcome = "gotoThrows"
        THEN [w |-> w1, threw |-> TRUE, page |-> p]
        ELSE IF outcome /= "ok"
        THEN [w |-> [w1 EXCEPT !.browsers[p].loc = "ups"],
              threw |-> TRUE, page |-> p]
        ELSE [w |-> updateSession([w1 EXCEPT !.browsers[p].loc = "ups"],
                                  [loggedIn |-> TRUE]),
              threw |-> FALSE, page |-> p]

----------------------------------------------------------------------------
\* UPSClient, public operations.  Each returns the world it leaves and what
\* it hands back to the caller: result is "success" ({success: true, ...}),
\* "error" ({error: true, ...}) or "throw" (the promise rejects).

\* The pages an operation worked on (0 = none), by browser.
NoPages == [loginPage |-> 0, fillPage |-> 0, submitPage |-> 0, shotPage |-> 0]

\* What an operation that never touched a page did.  login is how the login()
\* the operation called ended ("none" when it called none).
Quiet ==
    [reached |-> FALSE, interacted |-> FALSE, clickedNext |-> FALSE,
     clickedSubmit |-> FALSE, screenshot |-> FALSE, onFilled |-> FALSE,
     login |-> "none"]

\* fillForm(options): acquire a page, log in, open the form on the page
\* acquired first, fill it, persist formFilled=true.  login is how the login()
\* call ended: "ok" (returned true) or the way it threw.
fillForm(w, e) ==
    LET w1 == ensureBrowser(w, e.conn1)
        p  == w1.page
        l  == login(w1, e.conn2, e.login)
        w2 == l.w
        w3 == [w2 EXCEPT !.browsers[p].loc = "ups"]
        w4 == updateSession([w3 EXCEPT !.browsers[p].filled = TRUE],
                            [formFilled |-> TRUE])
    IN  IF w1.halted
        THEN [w |-> w1, result |-> "throw", screenshot |-> FALSE,
              loginPage |-> 0, fillPage |-> 0, login |-> "none"]
        ELSE IF l.threw
        THEN [w |-> w2, result |-> "throw", screenshot |-> FALSE,
              loginPage |-> l.page, fillPage |-> 0, login |-> e.login]
        ELSE IF e.fill = "gotoThrows"
        THEN [w |-> w2, result |-> "throw", screenshot |-> FALSE,
              loginPage |-> l.page, fillPage |-> 0, login |-> "ok"]
        ELSE IF e.fill = "formError"
        THEN [w |-> w3, result |-> "error", screenshot |-> TRUE,
              loginPage |-> l.page, fillPage |-> 0, login |-> "ok"]
        ELSE [w |-> w4, result |-> "success", screenshot |-> TRUE,
              loginPage |-> l.page, fillPage |-> p, login |-> "ok"]

\* takeScreenshot(options): acquire a page and capture it.
takeScreenshot(w, conn) ==
    LET w1 == ensureBrowser(w, conn)
    IN  IF w1.halted
        THEN [w |-> w1, result |-> "throw", screenshot |-> FALSE, shotPage |-> 0]
        ELSE [w |-> w1, result |-> "success", screenshot |-> TRUE,
              shotPage |-> w1.page]

\* submit() without the formFilled check.
submitUnchecked(w, conn, e) ==
    LET w1            == ensureBrowser(w, conn)
        p             == w1.page
        s             == w1.session
        buttons       == w1.browsers[p].loc /= "blank"
        hasNext       == buttons /\ e.next
        nextThrows    == hasNext /\ e.fail = "nextClick"
        clickedNext   == hasNext /\ ~nextThrows
        waitThrows    == clickedNext /\ e.fail = "nextWait"
        shotThrows    == ~nextThrows /\ ~waitThrows /\ e.fail = "reviewShot"
        atSubmit      == ~nextThrows /\ ~waitThrows /\ ~shotThrows
        hasSubmit     == atSubmit /\ buttons /\ e.submit
        submitThrows  == hasSubmit /\ e.fail = "submitClick"
        clickedSubmit == hasSubmit /\ ~submitThrows
        doneThrows    == clickedSubmit /\ e.fail = "submitWait"
        failed        == nextThrows \/ waitThrows \/ shotThrows
                            \/ submitThrows \/ doneThrows
    IN  IF w1.halted
        THEN [w |-> w1, result |-> "throw", out |-> Quiet, submitPage |-> 0]
        ELSE IF s.kind = "malformed"
        THEN [w |-> w1, result |-> "throw", out |-> Quiet, submitPage |-> p]
        ELSE [w |-> w1,
              result |-> IF failed THEN "error" ELSE "success",
              out |-> [reached |-> TRUE, interacted |-> TRUE,
                       clickedNext |-> clickedNext,
                       clickedSubmit |-> clickedSubmit,
                       screenshot |-> TRUE,
                       onFilled |-> w1.browsers[p].filled,
                       login |-> "none"],
              submitPage |-> p]

\* submit(): acquire a page, check formFilled in the descriptor when the file
\* exists, then review click, final click, screenshots, extraction.
\* reached = the try block was entered; interacted = the page was queried,
\* clicked, waited on or captured.
submit(w, conn, e) ==
    LET w1            == ensureBrowser(w, conn)
        p             == w1.page
        s             == w1.session
        buttons       == w1.browsers[p].loc /= "blank"
        hasNext       == buttons /\ e.next
        nextThrows    == hasNext /\ e.fail = "nextClick"
        clickedNext   == hasNext /\ ~nextThrows
        waitThrows    == clickedNext /\ e.fail = "nextWait"
        shotThrows    == ~nextThrows /\ ~waitThrows /\ e.fail = "reviewShot"
        atSubmit      == ~nextThrows /\ ~waitThrows /\ ~shotThrows
        hasSubmit     == atSubmit /\ buttons /\ e.submit
        submitThrows  == hasSubmit /\ e.fail = "submitClick"
        clickedSubmit == hasSubmit /\ ~submitThrows
        doneThrows    == clickedSubmit /\ e.fail = "submitWait"
        failed        == nextThrows \/ waitThrows \/ shotThrows
                            \/ submitThrows \/ doneThrows
    IN  IF w1.halted
        THEN [w |-> w1, result |-> "throw", out |-> Quiet, submitPage |-> 0]
        ELSE IF s.kind = "malformed"
        THEN [w |-> w1, result |-> "throw", out |-> Quiet, submitPage |-> p]
        ELSE IF s.kind = "session" /\ ~s.formFilled
        THEN [w |-> w1, result |-> "error", out |-> Quiet, submitPage |-> p]
        ELSE [w |-> w1,
              result |-> IF failed THEN "error" ELSE "success",
              out |-> [reached |-> TRUE, interacted |-> TRUE,
                       clickedNext |-> clickedNext,
                       clickedSubmit |-> clickedSubmit,
                       screenshot |-> TRUE,
                       onFilled |-> w1.browsers[p].filled,
                       login |-> "none"],
              submitPage |-> p]

\* reset() with the unlink inside the "if (this.browser)" block: a client that
\* holds no browser leaves the descriptor on disk.
resetHeldOnly(w) ==
    LET b  == w.browser
        w1 == IF b = 0 THEN w
              ELSE [w EXCEPT !.browsers[b] = ClosedBrowser,
                             !.opened = @ \ {b},
                             !.browser = 0, !.context = 0, !.page = 0,
                             !.session = NoSession]
    IN  [w |-> w1, result |-> "success"]

\* reset(): close this.browser when the client holds one and null the three
\* handles, then delete the descriptor when the file exists.  The catch block
\* (error result) is not reached: browser.close() on a browser that is already
\* gone resolves, and the file reset unlinks is one this program wrote.
reset(w) ==
    LET b  == w.browser
        w1 == IF b = 0 THEN w
              ELSE [w EXCEPT !.browsers[b] = ClosedBrowser,
                             !.opened = @ \ {b},
                             !.browser = 0, !.context = 0, !.page = 0]
    IN  [w |-> [w1 EXCEPT !.session = NoSession], result |-> "success"]

\* book(options): fillForm, then the submit stage on this.page, then reset.
book(w, e) ==
    LET f             == fillForm(w, e.fill)
        wf            == f.w
        p             == wf.page
        clickedNext   == e.stage.next /= "none"
        nextFails     == e.stage.fail = "afterNext"
        clickedSubmit == ~nextFails /\ e.stage.submit /= "none"
        failed        == nextFails \/ e.stage.fail = "afterSubmit"
        quiet         == [Quiet EXCEPT !.interacted = TRUE,
                                           !.screenshot = f.screenshot,
                                           !.login = f.login]
        acted         == [reached |-> TRUE, interacted |-> TRUE,
                          clickedNext |-> clickedNext,
                          clickedSubmit |-> clickedSubmit,
                          screenshot |-> TRUE,
                          onFilled |-> wf.browsers[p].filled,
                          login |-> f.login]
    IN  IF f.result /= "success"
        THEN [w |-> wf, result |-> f.result, out |-> quiet, stage |-> "fill",
              pages |-> [NoPages EXCEPT !.loginPage = f.loginPage, !.fillPage = f.fillPage]]
        ELSE IF p = 0
        THEN [w |-> wf, result |-> "error", out |-> [quiet EXCEPT !.screenshot = FALSE],
              stage |-> "page",
              pages |-> [NoPages EXCEPT !.loginPage = f.loginPage, !.fillPage = f.fillPage]]
        ELSE IF failed
        THEN [w |-> wf, result |-> "error", out |-> acted, stage |-> "submit",
              pages |-> [NoPages EXCEPT !.loginPage = f.loginPage, !.fillPage = f.fillPage,
                                        !.submitPage = p]]
        ELSE [w |-> reset(wf).w, result |-> "success", out |-> acted,
              stage |-> "submit",
              pages |-> [NoPages EXCEPT !.loginPage = f.loginPage, !.fillPage = f.fillPage,
                                        !.submitPage = p]]

----------------------------------------------------------------------------
\* The inputs of one invocation.

\* fillForm(): the answers to its two connects, then login's outcome and, after
\* a login that returned, the outcome of the fill.
FillEnv ==
    [conn1 : ConnectAnswers, conn2 : ConnectAnswers,
     login : {"ok"}, fill : FillOutcomes]
    \cup
    [conn1 : ConnectAnswers, conn2 : ConnectAnswers,
     login : LoginOutcomes \ {"ok"}, fill : {"ok"}]

\* connectOverCDP is only called on a descriptor that parses, and only a
\* running browser can answer it.
Connects(w) ==
    IF w.session.kind = "session" /\ w.browsers[w.session.wsEndpoint].alive
    THEN ConnectAnswers
    ELSE {"throws"}

\* The inputs of fillForm that the world w can give: the second connect is
\* answered in the world the first ensureBrowser leaves.
FillEnvAt(w) ==
    {e \in FillEnv :
        /\ e.conn1 \in Connects(w)
        /\ e.conn2 \in Connects(ensureBrowser(w, e.conn1))}

FillOkEnv == {e \in FillEnv : e.login = "ok" /\ e.fill = "ok"}

\* submit(): is the review control found, is the final control found, and the
\* await that rejects.  A click or the wait after it can only reject when its
\* control was found, and nothing after the rejecting await is consulted.
SubmitEnv ==
    {e \in [next : BOOLEAN, submit : BOOLEAN, fail : SubmitFailures] :
        /\ e.fail \in {"nextClick", "nextWait"} => e.next /\ ~e.submit
        /\ e.fail = "reviewShot" => ~e.submit
        /\ e.fail \in {"submitClick", "submitWait"} => e.submit}

\* The submit stage of book() runs only after a fill that returned success.
StageEnv ==
    {e \in [next : ClickAnswers, submit : ClickAnswers, fail : BookFailures] :
        e.fail = "afterNext" => e.submit = "none"}

NoStage == [next |-> "none", submit |-> "none", fail |-> "none"]

BookEnv(f) == IF f \in FillOkEnv THEN StageEnv ELSE {NoStage}

----------------------------------------------------------------------------
\* The record of the last operation (what a test double would observe).

Alive == {b \in BrowserIds : browsers[b].alive}

\* The descriptor as an operation finds it when it is called.
Found ==
    IF session.kind = "session"
    THEN (IF session.formFilled THEN "filled" ELSE "unfilled")
    ELSE session.kind

Observed(op, result, stage, out, pages, acq) ==
    [op |-> op, result |-> result, stage |-> stage, out |-> out, pages |-> pages,
     acq |-> acq, pre |-> Found, held |-> IF op = "reset" THEN browser ELSE 0]

Unobserved(op) ==
    [op |-> op, result |-> "none", stage |-> "none", out |-> Quiet,
     pages |-> NoPages, acq |-> <<>>, pre |-> "none", held |-> 0]

\* The world an operation leaves becomes the state.
Commit(w) ==
    /\ ~w.over
    /\ session' = w.session
    /\ browsers' = w.browsers
    /\ launches' = w.launches
    /\ browser' = w.browser
    /\ context' = w.context
    /\ page' = w.page
    /\ opened' = w.opened
    /\ UNCHANGED <<endpointExposed, canLaunch, calc, race, run>>

\* JavaScript's undefined, and a defined value v.
Undefined == <<>>
Some(v) == <<v>>

\* No call of a clock or form function is under way.
NoCalc == [fn |-> "none", in |-> Undefined, out |-> Undefined, done |-> FALSE]

\* No processes are at work on the descriptor; no invocation is followed.
NoRace == [proc |-> <<>>]
NoRun == [op |-> "none"]

----------------------------------------------------------------------------
Init ==
    /\ endpointExposed \in BOOLEAN
    /\ canLaunch \in BOOLEAN
    /\ session = NoSession
    /\ browsers = [b \in BrowserIds |-> ClosedBrowser]
    /\ launches = 0
    /\ browser = 0
    /\ context = 0
    /\ page = 0
    /\ opened = {}
    /\ sinceFill = "none"
    /\ last = Unobserved("init")
    /\ calc = NoCalc
    /\ race = NoRace
    /\ run = NoRun

\* cli.ts "fill-form": client.fillForm(options)
FillForm ==
    \E e \in FillEnvAt(World) :
        \E r \in {fillForm(World, e)} :
            /\ Commit(r.w)
            /\ sinceFill' = IF r.result = "success" THEN "none" ELSE sinceFill
            /\ last' = Observed("fillForm", r.result, "fill",
                                [Quiet EXCEPT !.interacted = TRUE,
                                              !.screenshot = r.screenshot,
                                              !.login = r.login],
                                [NoPages EXCEPT !.loginPage = r.loginPage,
                                                !.fillPage = r.fillPage],
                                r.w.acq)

\* cli.ts "screenshot": client.takeScreenshot(options)
TakeScreenshot ==
    \E conn \in Connects(World) :
        \E r \in {takeScreenshot(World, conn)} :
            /\ Commit(r.w)
            /\ UNCHANGED sinceFill
            /\ last' = Observed("takeScreenshot", r.result, "shot",
                                [Quiet EXCEPT !.interacted = TRUE,
                                              !.screenshot = r.screenshot],
                                [NoPages EXCEPT !.shotPage = r.shotPage],
                                r.w.acq)

\* cli.ts "submit": client.submit()
Submit ==
    \E conn \in Connects(World) : \E e \in SubmitEnv :
        \E r \in {submit(World, conn, e)} :
            /\ Commit(r.w)
            /\ sinceFill' = IF r.result = "success" THEN "ok"
                            ELSE IF r.result = "error" /\ r.out.reached THEN "err"
                            ELSE sinceFill
            /\ last' = Observed("submit", r.result,
                                IF r.out.reached THEN "submit" ELSE "check",
                                r.out,
                                [NoPages EXCEPT !.submitPage = r.submitPage],
                                r.w.acq)

\* cli.ts "book": client.book(options)
Book ==
    \E f \in FillEnvAt(World) : \E s \in BookEnv(f) :
        \E r \in {book(World, [fill |-> f, stage |-> s])} :
            /\ Commit(r.w)
            /\ sinceFill' = IF r.pages.fillPage = 0 THEN sinceFill
                            ELSE IF r.result = "error" THEN "err"
                            ELSE "none"
            /\ last' = Observed("book", r.result, r.stage, r.out, r.pages, r.w.acq)

\* cli.ts "reset": client.reset()
Reset ==
    \E r \in {reset(World)} :
        /\ Commit(r.w)
        /\ UNCHANGED sinceFill
        /\ last' = Observed("reset", r.result, "reset", Quiet, NoPages, <<>>)

\* runCli(commands, UPSClient, ...): the next command runs in a new process,
\* on a new UPSClient whose handles are null.
NewProcess ==
    /\ last.op /= "process"
    /\ browser' = 0
    /\ context' = 0
    /\ page' = 0
    /\ opened' = {}
    /\ last' = Unobserved("process")
    /\ UNCHANGED <<endpointExposed, canLaunch, session, browsers, launches, sinceFill, calc, race, run>>

\* A browser process ends outside the client (window closed, crash, kill).
BrowserExits ==
    \E b \in BrowserIds :
        /\ browsers[b].alive
        /\ browsers' = [browsers EXCEPT ![b] = ClosedBrowser]
        /\ opened' = opened \ {b}
        /\ last' = Unobserved("exit")
        /\ UNCHANGED <<endpointExposed, canLaunch, session, launches, browser, context, page,
                       sinceFill, calc, race, run>>

\* The page of a running browser is closed while the browser stays up: a later
\* connectOverCDP finds no page (pages.length = 0).
PageCloses ==
    \E b \in BrowserIds :
        /\ browsers[b].alive
        /\ browsers[b].hasPage
        /\ browsers' = [browsers EXCEPT ![b] = PagelessBrowser]
        /\ last' = Unobserved("close")
        /\ UNCHANGED <<endpointExposed, canLaunch, session, launches, browser, context, page,
                       opened, sinceFill, calc, race, run>>

\* The descriptor file is cut short (a process killed inside writeFileSync):
\* JSON.parse rejects it from then on.
SessionTruncated ==
    /\ session.kind = "session"
    /\ session' = MalformedSession
    /\ last' = Unobserved("truncate")
    /\ UNCHANGED <<endpointExposed, canLaunch, browsers, launches, browser, context, page,
                   opened, sinceFill, calc, race, run>>

Next ==
    \/ FillForm
    \/ TakeScreenshot
    \/ Submit
    \/ Book
    \/ Reset
    \/ NewProcess
    \/ BrowserExits
    \/ PageCloses
    \/ SessionTruncated

Spec == Init /\ [][Next]_vars

----------------------------------------------------------------------------
\* Smart defaults.  An instant is a day number and an hour of that day in UTC;
\* day 0 is a Sunday, so Date.getDay() of day d is d % 7.  Offsets are whole
\* hours ahead of UTC: uk is the offset of Europe/London at the instant (0 in
\* winter, 1 in summer), host the offset of the time zone of the process.

\* The largest distance, in hours, of the process's time zone from UTC.
MaxZone == 1

HostZones == (0 - MaxZone)..MaxZone
UKOffsets == {0, 1}
Instants == [day : 7..13, hour : 0..23]

\* The wall clock that is h hours ahead of the clock t.
shift(t, h) ==
    LET hours == t.day * 24 + t.hour + h
    IN  [day |-> hours \div 24, hour |-> hours % 24]

\* new Date(now.toLocaleString("en-US", {timeZone: "Europe/London"})): a Date
\* whose local fields (getHours, getDate, getDay) read the UK wall clock.
ukTime(now, uk) == shift(now, uk)

\* Date.getDay(): 0 = Sunday ... 6 = Saturday.
getDay(d) == d % 7

\* The "skip weekends" loop.
RECURSIVE skipWeekends(_)
skipWeekends(d) ==
    IF getDay(d) = 0 \/ getDay(d) = 6 THEN skipWeekends(d + 1) ELSE d

\* targetDate.toISOString().split("T")[0]: the calendar day, in UTC, of the
\* instant whose wall clock in the process's zone reads t.
toISODate(t, host) == shift(t, 0 - host).day

\* getSmartDate(): the collection date proposed at the instant now.
getSmartDate(now, uk, host) ==
    LET t          == ukTime(now, uk)
        hour       == t.hour
        start      == IF hour >= 13 THEN t.day + 1 ELSE t.day
        targetDate == [day |-> skipWeekends(start), hour |-> hour]
    IN  toISODate(targetDate, host)

\* getSmartEarliestTime() with the upper end of the window included.
getSmartEarliestTimeUpTo(now, uk) ==
    LET hour == ukTime(now, uk).hour
    IN  IF hour >= 12 /\ hour <= 17 THEN ToString(hour + 1) \o ":00" ELSE "12:00"

\* getSmartEarliestTime() proposing the hour under way instead of the next.
getSmartEarliestTimeThisHour(now, uk) ==
    LET hour == ukTime(now, uk).hour
    IN  IF hour >= 12 /\ hour < 17 THEN ToString(hour) \o ":00" ELSE "12:00"

\* getSmartEarliestTime(): the earliest collection time proposed at now.
getSmartEarliestTime(now, uk) ==
    LET hour == ukTime(now, uk).hour
    IN  IF hour >= 12 /\ hour < 17 THEN ToString(hour + 1) \o ":00" ELSE "12:00"

----------------------------------------------------------------------------
\* The form stage of fillForm: everything after the navigation to the form.

\* const DEFAULTS, the fixed collection address.
DEFAULTS ==
    [company |-> "YOUR_COMPANY",
     address |-> "YOUR_WAREHOUSE_ADDRESS_LINE_1, YOUR_WAREHOUSE_ADDRESS_LINE_2",
     city |-> "YOUR_CITY", postalCode |-> "YOUR_POSTCODE",
     telephone |-> "YOUR_PHONE_NUMBER", collectFrom |-> "Front Door",
     email |-> "YOUR_LOGISTICS_EMAIL", paymentAccount |-> "YOUR_UPS_ACCOUNT"]

\* The controls fillForm works on, in the order it works on them.
FieldOrder ==
    <<"company", "address", "city", "postalCode", "telephone", "packages",
      "weight", "specialInstructions", "collectionLocation", "email", "date",
      "earliestTime">>

FieldNames == {FieldOrder[i] : i \in 1..Len(FieldOrder)}

\* `!x` / `x || d` on an optional string and on an optional number.
TruthyText(x) == x /= Undefined /\ x[1] /= ""
TruthyNumber(x) == x /= Undefined /\ x[1] /= 0

\* The form page before anything was done to it.  present = the controls the
\* page has under a name the lookups know; values = what each control holds;
\* selected = the "different collection address" radio is selected; attempted
\* = the controls looked for so far; threw = an exception is propagating.
BlankForm(site) ==
    [present |-> site.present, values |-> [f \in FieldNames |-> Undefined],
     selected |-> FALSE, attempted |-> <<>>, threw |-> FALSE]

\* fillField() that throws when no label variant matches.
fillFieldOrThrow(form, field, value) ==
    [form EXCEPT !.attempted = Append(@, field),
                 !.values[field] = IF field \in form.present THEN Some(value) ELSE @,
                 !.threw = field \notin form.present]

\* fillField(page, labelVariants, value): fill the first control a label
\* variant resolves to; every exception is swallowed, a miss returns normally.
fillField(form, field, value) ==
    [form EXCEPT !.attempted = Append(@, field),
                 !.values[field] = IF field \in form.present THEN Some(value) ELSE @]

\* selectOption(page, labelVariants, value): the same for a dropdown or radio.
selectOption(form, field, value) ==
    [form EXCEPT !.attempted = Append(@, field),
                 !.values[field] = IF field \in form.present THEN Some(value) ELSE @]

\* The "different collection address" step: a selector of the list clicks the
\* radio, or else the scripted scan over the labels runs, which clicks the
\* radio, finds none, or rejects.
selectDifferentAddress(form, site) ==
    IF site.radio = "selector" THEN [form EXCEPT !.selected = TRUE]
    ELSE IF site.fail = "radioScan" THEN [form EXCEPT !.threw = TRUE]
    ELSE [form EXCEPT !.selected = (site.radio = "scan")]

\* "Build special instructions" with the door code taking precedence.
buildSpecialInstructionsDoorFirst(options) ==
    IF TruthyText(options.doorCode)
    THEN Some("Door code * " \o options.doorCode[1] \o " #")
    ELSE options.specialInstructions

\* "Build special instructions": the explicit text, or else the door code text.
buildSpecialInstructions(options) ==
    IF ~TruthyText(options.specialInstructions) /\ TruthyText(options.doorCode)
    THEN Some("Door code * " \o options.doorCode[1] \o " #")
    ELSE options.specialInstructions

\* The fillField / selectOption calls of the try block, in order.
FieldCalls(packages, weight, specialInstructions) ==
    <<[call |-> "fillField", field |-> "company", value |-> DEFAULTS.company],
      [call |-> "fillField", field |-> "address", value |-> DEFAULTS.address],
      [call |-> "fillField", field |-> "city", value |-> DEFAULTS.city],
      [call |-> "fillField", field |-> "postalCode", value |-> DEFAULTS.postalCode],
      [call |-> "fillField", field |-> "telephone", value |-> DEFAULTS.telephone],
      [call |-> "fillField", field |-> "packages", value |-> ToString(packages)],
      [call |-> "fillField", field |-> "weight", value |-> ToString(weight)]>>
    \o (IF TruthyText(specialInstructions)
        THEN <<[call |-> "fillField", field |-> "specialInstructions",
                value |-> specialInstructions[1]]>>
        ELSE <<>>)
    \o <<[call |-> "selectOption", field |-> "collectionLocation",
          value |-> "Front Door"],
         [call |-> "fillField", field |-> "email", value |-> DEFAULTS.email]>>

\* The calls one after the other; an exception ends the sequence.
RECURSIVE runCalls(_, _)
runCalls(form, calls) ==
    IF calls = <<>> \/ form.threw THEN form
    ELSE LET c == Head(calls)
         IN  runCalls(IF c.call = "fillField"
                      THEN fillField(form, c.field, c.value)
                      ELSE selectOption(form, c.field, c.value),
                      Tail(calls))

\* The two scripted passes over the dropdowns that select the date.
selectDate(form, date, site) ==
    IF form.threw THEN form
    ELSE IF site.fail = "date" THEN [form EXCEPT !.threw = TRUE]
    ELSE [form EXCEPT !.attempted = Append(@, "date"),
                      !.values["date"] = IF "date" \in form.present
                                         THEN Some(date) ELSE @]

\* earliestTime.split(":")[0]
hourOf(time) ==
    LET colons == {i \in 1..Len(time) : SubSeq(time, i, i) = ":"}
    IN  IF colons = {} THEN time
        ELSE SubSeq(time, 1, (CHOOSE i \in colons : \A j \in colons : i <= j) - 1)

\* The earliest-time pass run whether or not an exception is propagating.
selectEarliestTimeAnyway(form, earliestTime, site) ==
    IF earliestTime = "" THEN form
    ELSE IF site.fail = "time" THEN [form EXCEPT !.threw = TRUE]
    ELSE [form EXCEPT !.attempted = Append(@, "earliestTime"),
                      !.values["earliestTime"] =
                          IF "earliestTime" \in form.present
                          THEN Some(hourOf(earliestTime)) ELSE @]

\* The scripted pass that selects the hour of the earliest time.
selectEarliestTime(form, earliestTime, site) ==
    IF form.threw \/ earliestTime = "" THEN form
    ELSE IF site.fail = "time" THEN [form EXCEPT !.threw = TRUE]
    ELSE [form EXCEPT !.attempted = Append(@, "earliestTime"),
                      !.values["earliestTime"] =
                          IF "earliestTime" \in form.present
                          THEN Some(hourOf(earliestTime)) ELSE @]

\* fillForm(options) from the smart defaults to the returned result, on the
\* form page site, at the instant now.  formFilled = the call issued
\* updateSession({formFilled: true}).
fillFormOn(site, options, now, uk, host) ==
    LET date         == IF options.date /= Undefined THEN options.date[1]
                        ELSE getSmartDate(now, uk, host)
        earliestTime == IF TruthyText(options.earliestTime)
                        THEN options.earliestTime[1]
                        ELSE getSmartEarliestTime(now, uk)
        packages     == IF TruthyNumber(options.packages) THEN options.packages[1] ELSE 1
        weight       == IF TruthyNumber(options.weight) THEN options.weight[1] ELSE 10
        specialInstructions == buildSpecialInstructions(options)
        f1 == selectDifferentAddress(BlankForm(site), site)
        f2 == runCalls(f1, FieldCalls(packages, weight, specialInstructions))
        f3 == selectDate(f2, date, site)
        f4 == selectEarliestTime(f3, earliestTime, site)
    IN  IF f4.threw
        THEN [result |-> "error", screenshot |-> TRUE, formState |-> Undefined,
              formFilled |-> FALSE,
              specialInstructions |-> specialInstructions, form |-> f4]
        ELSE [result |-> "success", screenshot |-> TRUE, formFilled |-> TRUE,
              formState |->
                  Some([date |-> Some(date), packages |-> Some(packages),
                        weight |-> Some(weight),
                        earliestTime |-> Some(earliestTime),
                        latestTime |-> IF TruthyText(options.latestTime)
                                       THEN options.latestTime ELSE Some("18:00"),
                        specialInstructions |-> specialInstructions,
                        company |-> Some(DEFAULTS.company),
                        address |-> Some(DEFAULTS.address),
                        city |-> Some(DEFAULTS.city),
                        postalCode |-> Some(DEFAULTS.postalCode)]),
              specialInstructions |-> specialInstructions, form |-> f4]

----------------------------------------------------------------------------
\* The final-submit step of book() and of submit().

\* const submitSelectors of book().
submitSelectors ==
    <<"button.ups-cta_primary:has-text('Schedule')",
      "button[class*='primary']:has-text('Schedule')",
      "button:has-text('Schedule Pickup')",
      "button:has-text('Submit')",
      "button:has-text('Confirm')",
      "#btnSubmit">>

\* One turn of the selector loop: page.$ gives null ("absent"), isVisible is
\* false ("hidden"), the button is clicked ("clicked"), or an await of the
\* turn rejects before the page got a click ("throws": caught, next selector).
ClickOutcomes == {"absent", "hidden", "clicked", "throws"}

\* The scripted scan over all buttons: clicks the first that matches, finds
\* none, or the evaluate rejects.
ScanOutcomes == {"clicked", "none", "throws"}

\* The selector loop: the selectors, in order, whose button was clicked.
RECURSIVE clickLoop(_, _)
clickLoop(cands, i) ==
    IF i > Len(cands) THEN <<>>
    ELSE IF cands[i] = "clicked" THEN <<i>>
    ELSE clickLoop(cands, i + 1)

\* The final-submit step of book() with the scan run after the loop in any case.
clickFinalSubmitAlwaysScan(cands, scan) ==
    LET sel == clickLoop(cands, 1)
    IN  [selectorClicks |-> sel,
         scanRan |-> TRUE,
         scanClicks |-> IF scan = "clicked" THEN 1 ELSE 0,
         threw |-> scan = "throws"]

\* The final-submit step of book(): the loop over submitSelectors, then the
\* scan when the loop clicked nothing.  threw = the step ends in the catch
\* block of book().
clickFinalSubmit(cands, scan) ==
    LET sel     == clickLoop(cands, 1)
        clicked == sel /= <<>>
    IN  [selectorClicks |-> sel,
         scanRan |-> ~clicked,
         scanClicks |-> IF ~clicked /\ scan = "clicked" THEN 1 ELSE 0,
         threw |-> ~clicked /\ scan = "throws"]

\* The final-submit step of submit(): one page.$ over the selector list, one
\* click when it found a button.
submitFinalClick(control) ==
    [selectorClicks |-> IF control = "clicked" THEN <<1>> ELSE <<>>,
     scanRan |-> FALSE, scanClicks |-> 0, threw |-> control = "throws"]

----------------------------------------------------------------------------
\* fillField() in detail: the lookups of one call, label variant by variant.

\* The lookups of one label variant, in the order of the try block: by
\* aria-label, by placeholder, by label text (the control the label's "for"
\* names, then the input next to the label), by name attribute.
Strategies == <<"ariaLabel", "placeholder", "labelFor", "labelSibling", "name">>

\* What a lookup meets: no control ("none"), a control that it fills
\* ("found"), or a rejecting query or fill ("throws").
LookupAnswers == {"none", "found", "throws"}

\* The most lookups of one fillField call that reject.
MaxThrows == 1

\* The body of the try block for one label variant, from lookup k on: how it
\* ends and the lookups that ran.
RECURSIVE tryVariant(_, _)
tryVariant(answers, k) ==
    IF k > Len(Strategies) THEN [end |-> "none", ran |-> <<>>]
    ELSE IF answers[k] = "none"
    THEN LET r == tryVariant(answers, k + 1)
         IN  [r EXCEPT !.ran = <<Strategies[k]>> \o @]
    ELSE [end |-> answers[k], ran |-> <<Strategies[k]>>]

\* The loop over the label variants, from variant v on: the lookups that ran
\* and the one that filled a control, if any.
RECURSIVE fillFieldBy(_, _)
fillFieldBy(variants, v) ==
    IF v > Len(variants) THEN [filled |-> Undefined, ran |-> <<>>]
    ELSE LET t   == tryVariant(variants[v], 1)
             ran == [i \in 1..Len(t.ran) |-> [variant |-> v, strategy |-> t.ran[i]]]
         IN  IF t.end = "found"
             THEN [filled |-> Some(ran[Len(ran)]), ran |-> ran]
             ELSE LET r == fillFieldBy(variants, v + 1)
                  IN  [r EXCEPT !.ran = ran \o @]

----------------------------------------------------------------------------
\* login() in detail, after its page was acquired.

\* What the login page answers: whether page.goto rejects, whether a selector
\* of usernameSelectors / passwordSelectors finds a field within its timeout,
\* whether the continue and the login button exist, and how the race of
\* waitForURL and waitForSelector ends.
LoginSites ==
    [fail : {"none", "goto"}, username : BOOLEAN, continue : BOOLEAN,
     password : BOOLEAN, loginButton : BOOLEAN,
     race : {"url", "marker", "timeout"}]

\* The descriptors login() can find after ensureBrowser.
LoginSessions ==
    {NoSession, SessionInfo(1), [SessionInfo(1) EXCEPT !.loggedIn = TRUE],
     [SessionInfo(1) EXCEPT !.formFilled = TRUE]}

\* The first steps of login(): navigation, consent handling, screenshot.
LoginStart == <<"goto", "dismissCookieBanners", "screenshot">>

\* login() with loggedIn persisted once the password was submitted, before
\* the race.
loginOnPersistFirst(site, s) ==
    LET u == LoginStart \o <<"fillUsername">>
                 \o (IF site.continue THEN <<"clickContinue">> ELSE <<>>)
        p == u \o <<"fillPassword">>
               \o (IF site.loginButton THEN <<"clickLogin">> ELSE <<>>)
               \o <<"updateSession", "race">>
        t == updateSession([session |-> s], [loggedIn |-> TRUE]).session
    IN  IF site.fail = "goto"
        THEN [steps |-> <<"goto">>, threw |-> "goto", session |-> s]
        ELSE IF ~site.username
        THEN [steps |-> LoginStart \o <<"errorScreenshot">>,
              threw |-> "noUsername", session |-> s]
        ELSE IF ~site.password
        THEN [steps |-> u \o <<"errorScreenshot">>,
              threw |-> "noPassword", session |-> s]
        ELSE IF site.race = "timeout"
        THEN [steps |-> p \o <<"errorScreenshot">>,
              threw |-> "timeout", session |-> t]
        ELSE [steps |-> p, threw |-> "none", session |-> t]

\* login(): the steps it takes on the page, in order, the error it throws
\* ("none": it returns true) and the descriptor it leaves.
loginOn(site, s) ==
    LET u == LoginStart \o <<"fillUsername">>
                 \o (IF site.continue THEN <<"clickContinue">> ELSE <<>>)
        p == u \o <<"fillPassword">>
               \o (IF site.loginButton THEN <<"clickLogin">> ELSE <<>>)
               \o <<"race">>
    IN  IF site.fail = "goto"
        THEN [steps |-> <<"goto">>, threw |-> "goto", session |-> s]
        ELSE IF ~site.username
        THEN [steps |-> LoginStart \o <<"errorScreenshot">>,
              threw |-> "noUsername", session |-> s]
        ELSE IF ~site.password
        THEN [steps |-> u \o <<"errorScreenshot">>,
              threw |-> "noPassword", session |-> s]
        ELSE IF site.race = "timeout"
        THEN [steps |-> p \o <<"errorScreenshot">>,
              threw |-> "timeout", session |-> s]
        ELSE [steps |-> p \o <<"updateSession">>, threw |-> "none",
              session |-> updateSession([session |-> s],
                                        [loggedIn |-> TRUE]).session]

----------------------------------------------------------------------------
\* dismissCookieBanners().

\* const cookieButtonSelectors.
cookieButtonSelectors ==
    <<"#onetrust-accept-btn-handler",
      "#accept-recommended-btn-handler",
      "button[id*='accept']",
      "button:has-text('Accept All')",
      "button:has-text('Accept Cookies')",
      "button:has-text('Accept')",
      "button:has-text('I Agree')",
      "button:has-text('Got it')">>

CookieButtons == 1..Len(cookieButtonSelectors)

\* The most cookieButtonSelectors that match a button of one page.
MaxButtons == 2

\* What a page shows of a consent banner: the overlay ("onetrust": an element
\* both scripted removals match; "other": one only the first removal matches),
\* the selectors that match a button inside the overlay (removed with it) and
\* those that match a button elsewhere on the page.
BannerPages ==
    LET Few == {b \in SUBSET CookieButtons : Cardinality(b) <= MaxButtons}
    IN  {p \in [overlay : {"none", "onetrust", "other"}, inside : Few, outside : Few] :
            /\ Cardinality(p.inside \cup p.outside) <= MaxButtons
            /\ p.inside /= {} => p.overlay /= "none"}

\* What the page p answers during one call: whether the first scripted
\* removal and the final one reject, the buttons whose click rejects, and
\* whether the site takes the clicked button's banner away.
BannerEnvs(p) ==
    [evaluate : {"ok", "throws"}, cleanup : {"ok", "throws"},
     throws : {t \in SUBSET (p.inside \cup p.outside) : Cardinality(t) <= MaxThrows},
     dismisses : BOOLEAN]

\* The page after a click on the button that selector i matches.
afterAccept(p, i, e) ==
    IF ~e.dismisses THEN p
    ELSE IF i \in p.inside
    THEN [p EXCEPT !.overlay = "none", !.inside = {}]
    ELSE [p EXCEPT !.outside = @ \ {i}]

\* The selector loop without its break: every button found is clicked.
RECURSIVE clickAllAccept(_, _, _)
clickAllAccept(p, e, i) ==
    IF i > Len(cookieButtonSelectors) THEN [page |-> p, clicks |-> <<>>]
    ELSE IF i \in (p.inside \cup p.outside) \ e.throws
    THEN LET r == clickAllAccept(afterAccept(p, i, e), e, i + 1)
         IN  [r EXCEPT !.clicks = <<i>> \o @]
    ELSE clickAllAccept(p, e, i + 1)

\* The loop over cookieButtonSelectors from selector i on: the first button
\* found whose click returns ends it; a rejection moves on to the next.
RECURSIVE clickAccept(_, _, _)
clickAccept(p, e, i) ==
    IF i > Len(cookieButtonSelectors) THEN [page |-> p, clicks |-> <<>>]
    ELSE IF i \in (p.inside \cup p.outside) \ e.throws
    THEN [page |-> afterAccept(p, i, e), clicks |-> <<i>>]
    ELSE clickAccept(p, e, i + 1)

\* dismissCookieBanners() with the loop that clicks every button found.
dismissCookieBannersNoBreak(p, e) ==
    LET p1 == IF e.evaluate = "throws" THEN p
              ELSE [p EXCEPT !.overlay = "none", !.inside = {}]
        c  == clickAllAccept(p1, e, 1)
        p3 == IF e.cleanup = "throws" \/ c.page.overlay /= "onetrust" THEN c.page
              ELSE [c.page EXCEPT !.overlay = "none", !.inside = {}]
    IN  [page |-> p3, clicks |-> c.clicks, threw |-> FALSE]

\* dismissCookieBanners(page): scripted removal of the overlays, the loop over
\* the accept buttons, final removal of the OneTrust overlays.  Each of the
\* three parts swallows its exceptions.
dismissCookieBanners(p, e) ==
    LET p1 == IF e.evaluate = "throws" THEN p
              ELSE [p EXCEPT !.overlay = "none", !.inside = {}]
        c  == clickAccept(p1, e, 1)
        p3 == IF e.cleanup = "throws" \/ c.page.overlay /= "onetrust" THEN c.page
              ELSE [c.page EXCEPT !.overlay = "none", !.inside = {}]
    IN  [page |-> p3, clicks |-> c.clicks, threw |-> FALSE]

\* Two calls in a row on the same page, as login() and fillForm() make them.
dismissTwice(p, e) ==
    LET first == dismissCookieBanners(p, e)
    IN  [first |-> first, second |-> dismissCookieBanners(first.page, e)]

----------------------------------------------------------------------------
\* The date step of fillForm in detail: the two scripted passes over a
\* dropdown.  Day 0 is Sunday 28 December 2025, so day d in 4..34 is the
\* (d - 3)th of January 2026.

\* String.prototype.includes
includes(text, needle) ==
    \E i \in 1..(Len(text) - Len(needle) + 1) :
        SubSeq(text, i, i + Len(needle) - 1) = needle

\* String.prototype.toLowerCase
RECURSIVE toLowerCase(_)
toLowerCase(text) ==
    IF text = "" THEN ""
    ELSE LET upper == "ABCDEFGHIJKLMNOPQRSTUVWXYZ"
             lower == "abcdefghijklmnopqrstuvwxyz"
             c     == SubSeq(text, 1, 1)
             at    == {i \in 1..Len(upper) : SubSeq(upper, i, i) = c}
         IN  (IF at = {} THEN c
              ELSE LET i == CHOOSE j \in at : TRUE IN SubSeq(lower, i, i))
                 \o toLowerCase(SubSeq(text, 2, Len(text)))

\* searchDate.split(', ').pop()
lastPart(text) ==
    LET cuts == {i \in 1..(Len(text) - 1) : SubSeq(text, i, i + 1) = ", "}
    IN  IF cuts = {} THEN text
        ELSE SubSeq(text, (CHOOSE i \in cuts : \A j \in cuts : j <= i) + 2, Len(text))

Weekdays ==
    <<"Sunday", "Monday", "Tuesday", "Wednesday", "Thursday", "Friday", "Saturday">>

\* dateObj.getDate() and the month name of a day of January 2026.
getDate(d) == d - 3
monthName == "January"

\* dateObj.toLocaleDateString('en-GB', {weekday: 'long', year: 'numeric',
\* month: 'long', day: 'numeric'}): "Friday, 16 January 2026" or, with the
\* locale data of later ICU releases, "Friday 16 January 2026".
toLocaleDateString(d, comma) ==
    Weekdays[getDay(d) + 1] \o (IF comma THEN ", " ELSE " ")
        \o ToString(getDate(d)) \o " " \o monthName \o " 2026"

\* The date as the options carry it: YYYY-MM-DD.
isoDate(d) ==
    "2026-01-" \o (IF getDate(d) < 10 THEN "0" ELSE "") \o ToString(getDate(d))

\* The text of the option for day d as the site renders it: in the British
\* long format, with or without the comma, or in the American one
\* ("Friday, January 16, 2026").
optionText(d, style) ==
    IF style = "us"
    THEN Weekdays[getDay(d) + 1] \o ", " \o monthName \o " "
             \o ToString(getDate(d)) \o ", 2026"
    ELSE toLocaleDateString(d, style = "gbComma")

\* The days a date dropdown offers.
DateDays == {8, 9, 19}

\* The option elements of a dropdown: a placeholder when the site has one,
\* then the days it offers, in ascending order.
RECURSIVE dateOptions(_, _, _)
dateOptions(days, style, values) ==
    IF days = {} THEN <<>>
    ELSE LET d == CHOOSE x \in days : \A y \in days : x <= y
         IN  <<[day |-> d, text |-> optionText(d, style),
                value |-> IF values = "iso" THEN isoDate(d)
                          ELSE optionText(d, style)]>>
                 \o dateOptions(days \ {d}, style, values)

Placeholder == [day |-> 0, text |-> "Select a date", value |-> ""]

\* options.find(predicate), given the indices of the options that satisfy
\* the predicate: the first of them, 0 when there is none.
find(hits) ==
    IF hits = {} THEN 0 ELSE CHOOSE i \in hits : \A j \in hits : i <= j

\* The date step on one dropdown: the pass that looks for the formatted date
\* (first = the option it selected, 0: none), then the pass that looks for
\* the day number and the month name (second = the option it selected),
\* and the option selected in the end (the first one when no pass selected).
selectDateIn(options, d, comma) ==
    LET searchDate == toLocaleDateString(d, comma)
        Full(opt) == \/ includes(toLowerCase(opt.text), toLowerCase(searchDate))
                     \/ includes(opt.text, lastPart(searchDate))
        first == find({i \in 1..Len(options) : Full(options[i])})
        value == IF first /= 0 THEN options[first].value
                 ELSE IF options = <<>> THEN "" ELSE options[1].value
        Degraded(opt) == /\ includes(opt.text, ToString(getDate(d)))
                         /\ includes(toLowerCase(opt.text), toLowerCase(monthName))
        match == find({i \in 1..Len(options) : Degraded(options[i])})
        second == IF match /= 0 /\ ~includes(value, "January") THEN match ELSE 0
    IN  [first |-> first, second |-> second,
         selected |-> IF second /= 0 THEN second
                      ELSE IF first /= 0 THEN first
                      ELSE IF options = <<>> THEN 0 ELSE 1]

----------------------------------------------------------------------------
\* extractConfirmation().

\* JavaScript's null.
Null == <<"null", "null">>

\* const confirmationPatterns.
confirmationPatterns ==
    <<"/Confirmation[:\\s#]*([A-Z0-9]+)/i", "/Request[:\\s#]*([A-Z0-9]+)/i",
      "/Reference[:\\s#]*([A-Z0-9]+)/i", "/Pickup[:\\s#]*([A-Z0-9]+)/i">>

\* text.substring(0, 3000), on the length of the text.
substring(length) == IF length < 3000 THEN length ELSE 3000

\* x || null, on an optional string.
orNull(x) == IF TruthyText(x) THEN x ELSE Null

\* The loop over confirmationPatterns from pattern i on: the capture of the
\* first pattern that matches, null when none does.
RECURSIVE firstMatch(_, _)
firstMatch(matches, i) ==
    IF i > Len(matches) THEN Null
    ELSE IF matches[i] /= Undefined THEN matches[i]
    ELSE firstMatch(matches, i + 1)

\* extractConfirmation(page) on a page whose text has the given length and
\* gives the given captures (Undefined: the pattern does not match); the
\* collection date capture is the one after trim().  A rejecting evaluate
\* ends in the catch block.  pageText is the length of the text returned.
extractConfirmation(p) ==
    IF p.evaluate = "throws"
    THEN [threw |-> FALSE, confirmationNumber |-> Undefined,
          totalCharges |-> Undefined, collectionDate |-> Undefined,
          pageText |-> Some(Len("Unable to extract confirmation details"))]
    ELSE [threw |-> FALSE,
          confirmationNumber |-> firstMatch(p.confirmation, 1),
          totalCharges |-> orNull(p.charges),
          collectionDate |-> orNull(p.date),
          pageText |-> Some(substring(p.length))]

----------------------------------------------------------------------------
\* The clock and form functions on their own: a call is drawn with its input,
\* then the function is applied.  The client and the descriptor stay as the
\* constructor leaves them.

Call(fn, in) == [fn |-> fn, in |-> in, out |-> Undefined, done |-> FALSE]

SmartDateCalls ==
    {Call("getSmartDate", i) : i \in [now : Instants, uk : UKOffsets, host : HostZones]}

SmartEarliestTimeCalls ==
    {Call("getSmartEarliestTime", i) : i \in [now : Instants, uk : UKOffsets]}

\* The most controls a form page lacks.
MaxMissing == 1

\* The form page as the site renders it: the controls the lookups can find,
\* how the "different collection address" radio can be reached ("selector",
\* "scan", or "none": no such radio), and the scripted pass that rejects.
Sites ==
    {s \in [present : SUBSET FieldNames, radio : {"selector", "scan", "none"},
            fail : {"none", "radioScan", "date", "time"}] :
        /\ Cardinality(FieldNames \ s.present) <= MaxMissing
        /\ s.fail = "radioScan" => s.radio = "none"}

\* FillFormOptions.
Options ==
    [date : {Undefined, Some(16)},
     packages : {Undefined, Some(3)},
     weight : {Undefined},
     earliestTime : {Undefined, Some("09:30")},
     latestTime : {Undefined},
     doorCode : {Undefined, Some(""), Some("123456789")},
     specialInstructions : {Undefined, Some(""), Some("Ring the bell twice")}]

\* The instants at which forms are filled: a Friday at 14 h in winter on a
\* host on UTC, a Tuesday at 9 h UTC in summer on a host on UK time.
FormClocks ==
    {[now |-> [day |-> 12, hour |-> 14], uk |-> 0, host |-> 0],
     [now |-> [day |-> 9, hour |-> 9], uk |-> 1, host |-> 1]}

FillFormCalls ==
    {Call("fillForm", i) : i \in [site : Sites, options : Options, clock : FormClocks]}

Return(out) ==
    /\ calc' = [calc EXCEPT !.out = out, !.done = TRUE]
    /\ UNCHANGED <<endpointExposed, canLaunch, session, browsers, launches, browser, context,
                   page, opened, sinceFill, last, race, run>>

GetSmartDate ==
    /\ calc.fn = "getSmartDate"
    /\ ~calc.done
    /\ Return(getSmartDate(calc.in.now, calc.in.uk, calc.in.host))

GetSmartEarliestTime ==
    /\ calc.fn = "getSmartEarliestTime"
    /\ ~calc.done
    /\ Return(getSmartEarliestTime(calc.in.now, calc.in.uk))

\* The form stage of a fillForm whose login and navigation ran through.
FillFormOn ==
    /\ calc.fn = "fillForm"
    /\ ~calc.done
    /\ Return(fillFormOn(calc.in.site, calc.in.options, calc.in.clock.now,
                         calc.in.clock.uk, calc.in.clock.host))

\* The final-submit step of book(): what the selector loop meets, selector
\* by selector, and what the scan meets.
BookFinalClickCalls(cands) ==
    {Call("bookFinalClick", [cands |-> cands, scan |-> scan]) : scan \in ScanOutcomes}

\* The final-submit step of submit(): what its one query meets.
SubmitFinalClickCalls ==
    {Call("submitFinalClick", i) : i \in [control : {"absent", "clicked", "throws"}]}

BookFinalClick ==
    /\ calc.fn = "bookFinalClick"
    /\ ~calc.done
    /\ Return(clickFinalSubmit(calc.in.cands, calc.in.scan))

SubmitFinalClick ==
    /\ calc.fn = "submitFinalClick"
    /\ ~calc.done
    /\ Return(submitFinalClick(calc.in.control))

\* fillField(page, ["Weight", "Total Weight"], value): what the lookups of the
\* first label variant meet (first) and what those of the second meet.
FillFieldCalls(first) ==
    {Call("fillField", [variants |-> <<first, second>>]) :
        second \in {a \in [1..Len(Strategies) -> LookupAnswers] :
                      Cardinality({k \in 1..Len(Strategies) : first[k] = "throws"})
                        + Cardinality({k \in 1..Len(Strategies) : a[k] = "throws"})
                          <= MaxThrows}}

FillField ==
    /\ calc.fn = "fillField"
    /\ ~calc.done
    /\ Return(fillFieldBy(calc.in.variants, 1))

LoginCalls ==
    {Call("login", i) : i \in [site : LoginSites, session : LoginSessions]}

LoginOn ==
    /\ calc.fn = "login"
    /\ ~calc.done
    /\ Return(loginOn(calc.in.site, calc.in.session))

\* The dismissCookieBanners calls on the page p.
DismissCalls(p) ==
    {Call("dismissCookieBanners", [page |-> p, env |-> e]) : e \in BannerEnvs(p)}

DismissCookieBanners ==
    /\ calc.fn = "dismissCookieBanners"
    /\ ~calc.done
    /\ Return(dismissTwice(calc.in.page, calc.in.env))

\* updateSession(updates), called once and called again with the same
\* updates: the descriptors it can find and the partial descriptors passed.
SessionUpdates ==
    {[loggedIn |-> TRUE], [formFilled |-> TRUE], [formFilled |-> FALSE],
     [loggedIn |-> TRUE, formFilled |-> TRUE]}

UpdateSessionCalls ==
    {Call("updateSession", i) :
        i \in [session : LoginSessions
                            \cup {[SessionInfo(2) EXCEPT !.loggedIn = TRUE,
                                                         !.formFilled = TRUE]},
               updates : SessionUpdates]}

UpdateSession ==
    /\ calc.fn = "updateSession"
    /\ ~calc.done
    /\ \E once \in {updateSession([session |-> calc.in.session], calc.in.updates)} :
          Return([once |-> once.session,
                  twice |-> updateSession(once, calc.in.updates).session])

\* The date step: the dropdown of the page, the date asked for and the
\* locale data of the runtime.
SelectDateCalls ==
    {Call("selectDate", i) :
        i \in [days : SUBSET DateDays, style : {"gbComma", "gb", "us"},
               values : {"iso", "text"}, placeholder : BOOLEAN,
               date : {9, 19}, comma : BOOLEAN]}

SelectDateIn ==
    /\ calc.fn = "selectDate"
    /\ ~calc.done
    /\ \E options \in {(IF calc.in.placeholder THEN <<Placeholder>> ELSE <<>>)
                          \o dateOptions(calc.in.days, calc.in.style, calc.in.values)} :
          \E r \in {selectDateIn(options, calc.in.date, calc.in.comma)} :
              Return([options |-> options, first |-> r.first, second |-> r.second,
                      selected |-> r.selected])

\* The confirmation pages: whether page.evaluate rejects, what each pattern
\* captures, and how long document.body.innerText is.
ConfirmationPages ==
    [evaluate : {"ok", "throws"},
     confirmation : [1..Len(confirmationPatterns) -> {Undefined, Some("1Z999AA1")}],
     charges : {Undefined, Some("12.50 GBP")},
     date : {Undefined, Some(""), Some("Friday 16 January 2026")},
     length : {0, 2999, 3000, 3001}]

ExtractConfirmationCalls == {Call("extractConfirmation", i) : i \in ConfirmationPages}

ExtractConfirmation ==
    /\ calc.fn = "extractConfirmation"
    /\ ~calc.done
    /\ Return(extractConfirmation(calc.in))

FormInit ==
    /\ endpointExposed = TRUE
    /\ canLaunch = TRUE
    /\ session = NoSession
    /\ browsers = [b \in BrowserIds |-> ClosedBrowser]
    /\ launches = 0
    /\ browser = 0
    /\ context = 0
    /\ page = 0
    /\ opened = {}
    /\ sinceFill = "none"
    /\ last = Unobserved("init")
    /\ race = NoRace
    /\ run = NoRun
    /\ \/ calc \in SmartDateCalls \cup SmartEarliestTimeCalls \cup FillFormCalls
                    \cup SubmitFinalClickCalls \cup LoginCalls
                    \cup UpdateSessionCalls \cup SelectDateCalls
                    \cup ExtractConfirmationCalls
       \/ \E cands \in [1..Len(submitSelectors) -> ClickOutcomes] :
             calc \in BookFinalClickCalls(cands)
       \/ \E first \in [1..Len(Strategies) -> LookupAnswers] :
             calc \in FillFieldCalls(first)
       \/ \E p \in BannerPages : calc \in DismissCalls(p)

FormNext ==
    \/ GetSmartDate
    \/ GetSmartEarliestTime
    \/ FillFormOn
    \/ BookFinalClick
    \/ SubmitFinalClick
    \/ FillField
    \/ LoginOn
    \/ DismissCookieBanners
    \/ UpdateSession
    \/ SelectDateIn
    \/ ExtractConfirmation

FormSpec == FormInit /\ [][FormNext]_vars

----------------------------------------------------------------------------
\* Several processes on one descriptor file.  Each cli.ts command runs in a
\* process of its own; the file system calls of updateSession, reset and
\* ensureBrowser are synchronous inside a process and interleave between
\* processes.  One step is one file system call (writeFileSync taken as one
\* call: schedules that keep its open and write together are among those the
\* operating system allows).

Procs == {"a", "b"}

\* The most invocations one process makes.
MaxOps == 2

\* What touches the file: login's updateSession({loggedIn: true}), fillForm's
\* updateSession({formFilled: true}), reset's unlink, and the descriptor
\* ensureBrowser writes after a launch.
RaceOps == {"login", "fill", "reset", "launch"}

updatesOf(op) == IF op = "login" THEN [loggedIn |-> TRUE] ELSE [formFilled |-> TRUE]

Idle(left) == [op |-> "none", pc |-> "idle", buf |-> NoSession, left |-> left]

\* Object.assign(session, updates) that leaves the object as it was read.
objectAssignNothing(s, updates) == s

\* Object.assign(session, updates)
objectAssign(s, updates) ==
    [f \in DOMAIN s |-> IF f \in DOMAIN updates THEN updates[f] ELSE s[f]]

\* What the invocation leaves on disk when it runs alone: the operation as a
\* whole applied to the file as it is now.
Alone(op) ==
    IF op \in {"login", "fill"}
    THEN updateSession([session |-> session], updatesOf(op)).session
    ELSE IF op = "reset" THEN reset(World).w.session
    ELSE SessionInfo(race.launches + 1)

RaceUnchanged ==
    UNCHANGED <<endpointExposed, canLaunch, browsers, launches, browser, context, page,
                opened, sinceFill, last, calc, run>>

\* A process has finished its invocation.
Finish(p) == [race.proc[p] EXCEPT !.op = "none", !.pc = "idle", !.buf = NoSession]

\* A process starts an invocation.  serial records that no two invocations
\* have overlapped so far, expected what the invocations leave when each runs
\* alone, in the order they started.
RaceBegin ==
    \E p \in Procs : \E op \in RaceOps :
        /\ race.proc[p].pc = "idle"
        /\ race.proc[p].left > 0
        /\ race' = [race EXCEPT
                      !.proc[p] = [op |-> op,
                                   pc |-> IF op = "launch" THEN "write" ELSE "exists",
                                   buf |-> NoSession,
                                   left |-> race.proc[p].left - 1],
                      !.serial = @ /\ \A q \in Procs \ {p} : race.proc[q].pc = "idle",
                      !.expected = Alone(op)]
        /\ UNCHANGED session
        /\ RaceUnchanged

\* existsSync(SESSION_PATH), in updateSession and in reset.
RaceExists ==
    \E p \in Procs :
        /\ race.proc[p].pc = "exists"
        /\ race' = [race EXCEPT !.proc[p] =
                      IF session.kind = "none" THEN Finish(p)
                      ELSE [@ EXCEPT !.pc = IF race.proc[p].op = "reset"
                                            THEN "unlink" ELSE "read"]]
        /\ UNCHANGED session
        /\ RaceUnchanged

\* JSON.parse(readFileSync(SESSION_PATH)): throws when the file is gone.
RaceRead ==
    \E p \in Procs :
        /\ race.proc[p].pc = "read"
        /\ race' = [race EXCEPT !.proc[p] =
                      IF session.kind = "session"
                      THEN [@ EXCEPT !.pc = "write", !.buf = session]
                      ELSE Finish(p)]
        /\ UNCHANGED session
        /\ RaceUnchanged

\* writeFileSync(SESSION_PATH, ...): updateSession writes what it read with
\* its updates merged in, ensureBrowser writes a new descriptor.  lost: the
\* file held something else than this process read, which the write replaces;
\* back: the file was deleted in between and the write creates it again.
RaceWrite ==
    \E p \in Procs :
        /\ race.proc[p].pc = "write"
        /\ IF race.proc[p].op = "launch"
           THEN /\ session' = SessionInfo(race.launches + 1)
                /\ race' = [race EXCEPT !.proc[p] = Finish(p), !.launches = @ + 1]
           ELSE /\ session' = objectAssign(race.proc[p].buf, updatesOf(race.proc[p].op))
                /\ race' = [race EXCEPT
                              !.proc[p] = Finish(p),
                              !.lost = @ \/ (session.kind = "session"
                                               /\ session /= race.proc[p].buf),
                              !.back = @ \/ session.kind = "none"]
        /\ RaceUnchanged

\* unlinkSync(SESSION_PATH) in reset: throws when the file is gone, which
\* reset's catch block turns into an error result.
RaceUnlink ==
    \E p \in Procs :
        /\ race.proc[p].pc = "unlink"
        /\ session' = NoSession
        /\ race' = [race EXCEPT !.proc[p] = Finish(p)]
        /\ RaceUnchanged

RaceInit ==
    /\ endpointExposed = TRUE
    /\ canLaunch = TRUE
    /\ browsers = [b \in BrowserIds |-> ClosedBrowser]
    /\ launches = 0
    /\ browser = 0
    /\ context = 0
    /\ page = 0
    /\ opened = {}
    /\ sinceFill = "none"
    /\ last = Unobserved("init")
    /\ calc = NoCalc
    /\ run = NoRun
    /\ \E n \in {0, 1} :
          /\ session = (IF n = 0 THEN NoSession ELSE SessionInfo(n))
          /\ race = [proc |-> [p \in Procs |-> Idle(MaxOps)], serial |-> TRUE,
                     expected |-> session, lost |-> FALSE, back |-> FALSE,
                     launches |-> n]

RaceNext ==
    \/ RaceBegin
    \/ RaceExists
    \/ RaceRead
    \/ RaceWrite
    \/ RaceUnlink

RaceSpec == RaceInit /\ [][RaceNext]_vars

----------------------------------------------------------------------------
\* One invocation, wait by wait.  The code of an operation is laid out as the
\* sequence of its awaited calls and loops, in source order, the calls it
\* makes to other methods included.  A block is one awaited call (n = 1) or a
\* loop over n candidates; "hit" and "miss" say how many blocks ahead control
\* goes when the call finds what it looks for, and when it (or the last
\* candidate) does not; "none" says what a miss on the last candidate does
\* instead when the code throws or returns there; "throws" says where an
\* exception of the call goes: "next" (caught on the spot, like a miss),
\* "catch" (the operation's catch block), "return" (an error result at once)
\* or "raise" (out of the operation).

\* await x(...)
Wait(at, throws) ==
    [at |-> at, n |-> 1, stop |-> TRUE, hit |-> 1, miss |-> 1, none |-> "go",
     throws |-> throws]

\* const x = await page.$(...); if (x) { the next skip blocks }
Probe(at, skip, throws) ==
    [at |-> at, n |-> 1, stop |-> TRUE, hit |-> 1, miss |-> 1 + skip, none |-> "go",
     throws |-> throws]

\* if (!x) return { error: true, ... }
Check(at, throws) ==
    [at |-> at, n |-> 1, stop |-> TRUE, hit |-> 1, miss |-> 1, none |-> "return",
     throws |-> throws]

\* for (const c of candidates) { try { ...; if (found) { ...; break; } } catch
\* { continue; } }, followed by skip blocks that run only when nothing was found
Loop(at, n, skip) ==
    [at |-> at, n |-> n, stop |-> TRUE, hit |-> 1 + skip, miss |-> 1, none |-> "go",
     throws |-> "next"]

\* The same loop followed by: if (!found) { ...; throw new Error(...) }
Need(at, n) ==
    [at |-> at, n |-> n, stop |-> TRUE, hit |-> 1, miss |-> 1, none |-> "raise",
     throws |-> "next"]

\* for (const c of candidates) { try { ... } catch { } }, without break
Each(at, n) ==
    [at |-> at, n |-> n, stop |-> FALSE, hit |-> 1, miss |-> 1, none |-> "go",
     throws |-> "next"]

singletonFiles == <<"SingletonLock", "SingletonSocket", "SingletonCookie">>

usernameSelectors ==
    <<"input[name='username']", "input[id='username']", "input[type='email']",
      "input[name='email']", "#email", "input[id*='email']",
      "input[placeholder*='email' i]", "input[placeholder*='username' i]">>

passwordSelectors ==
    <<"input[type='password']", "input[name='password']", "#password",
      "input[id*='password']">>

differentAddressSelectors ==
    <<"input[type='radio'][value='NEW']", "input[type='radio'][id*='different']",
      "input[type='radio'][id*='new']",
      "label:has-text('different collection address') input[type='radio']",
      "label:has-text('A different collection') input[type='radio']">>

nextSelectors ==
    <<"button.ups-cta_primary:has-text('Next')",
      "button[class*='primary']:has-text('Next')",
      "button:has-text('Next'):visible", "#btnNext", "button:has-text('Next')">>

\* The labelVariants of the fillField and selectOption calls of fillForm.
labelVariants ==
    [company |-> <<"Company", "Company Name", "company">>,
     address |-> <<"Address Line 1", "Address", "Street Address", "addressLine1">>,
     city |-> <<"City", "Town", "city">>,
     postalCode |-> <<"Postal Code", "Postcode", "ZIP", "postalCode">>,
     telephone |-> <<"Telephone", "Phone", "Contact Number", "telephone">>,
     packages |-> <<"Package", "Packages", "Number of Packages">>,
     weight |-> <<"Weight", "Total Weight">>,
     specialInstructions |-> <<"Special Instructions", "Instructions", "Notes">>,
     collectionLocation |-> <<"Preferred Collection Location", "Collect From",
                              "Collection Location">>,
     email |-> <<"Email", "Notification Email", "email">>]

\* ensureBrowser(): a connect that finds a page returns it, past the launch.
ensureBrowserBlocks(throws) ==
    <<[Wait("connectOverCDP", "next") EXCEPT !.hit = 5],
      Each("singletonFiles", Len(singletonFiles)),
      Wait("chromium.launch", throws),
      Wait("browser.newContext", throws),
      Wait("context.newPage", throws)>>

dismissCookieBannersBlocks(throws) ==
    <<Wait("waitForTimeout(2000)", throws),
      Wait("evaluate(remove overlays)", "next"),
      Loop("cookieButtonSelectors", Len(cookieButtonSelectors), 0),
      Wait("evaluate(remove overlays again)", "next")>>

loginBlocks ==
    ensureBrowserBlocks("raise")
    \o <<Wait("goto(UPS_LOGIN_URL)", "raise"), Wait("waitForTimeout(5000)", "raise")>>
    \o dismissCookieBannersBlocks("raise")
    \o <<Wait("screenshot(login page)", "raise"),
         Need("usernameSelectors", Len(usernameSelectors)),
         Wait("usernameField.fill", "raise"),
         Probe("page.$(continue)", 2 + Len(dismissCookieBannersBlocks("raise")), "raise"),
         Wait("continueButton.click", "raise"),
         Wait("waitForTimeout(2000)", "raise")>>
    \o dismissCookieBannersBlocks("raise")
    \o <<Need("passwordSelectors", Len(passwordSelectors)),
         Wait("passwordField.fill", "raise"),
         Probe("page.$(log in)", 1, "raise"),
         Wait("loginButton.click", "raise"),
         Wait("Promise.race(waitForURL, waitForSelector)", "raise")>>

\* fillField / selectOption: a hit returns from the loop over the variants.
fillFieldBlocks(field) == <<Loop(field, Len(labelVariants[field]), 0)>>

fillFormBlocks ==
    ensureBrowserBlocks("raise")
    \o loginBlocks
    \o <<Wait("goto(UPS_FORM_URL)", "raise")>>
    \o dismissCookieBannersBlocks("raise")
    \o <<Wait("waitForTimeout(3000)", "raise"),
         Wait("screenshot(initial)", "raise"),
         Loop("differentAddressSelectors", Len(differentAddressSelectors), 2),
         Wait("evaluate(click radio by label)", "catch"),
         Wait("waitForTimeout(1000)", "catch")>>
    \o fillFieldBlocks("company") \o fillFieldBlocks("address")
    \o fillFieldBlocks("city") \o fillFieldBlocks("postalCode")
    \o fillFieldBlocks("telephone") \o fillFieldBlocks("packages")
    \o fillFieldBlocks("weight") \o fillFieldBlocks("specialInstructions")
    \o fillFieldBlocks("collectionLocation") \o fillFieldBlocks("email")
    \o <<Wait("evaluate(select date)", "catch"),
         Wait("evaluate(select day and month)", "catch"),
         Wait("waitForTimeout(500)", "catch"),
         Wait("evaluate(select earliest time)", "catch"),
         Wait("screenshot(preview)", "raise")>>

takeScreenshotBlocks ==
    ensureBrowserBlocks("raise") \o <<Wait("screenshot", "raise")>>

submitBlocks ==
    ensureBrowserBlocks("raise")
    \o <<Check("session.formFilled", "raise"),
         Probe("page.$(next)", 3, "catch"),
         Wait("nextButton.click", "catch"),
         Wait("waitForLoadState(networkidle)", "catch"),
         Wait("waitForTimeout(2000)", "catch"),
         Wait("screenshot(review)", "catch"),
         Probe("page.$(submit)", 3, "catch"),
         Wait("submitButton.click", "catch"),
         Wait("waitForLoadState(networkidle) after submit", "catch"),
         Wait("waitForTimeout(3000)", "catch"),
         Wait("screenshot(confirmation)", "catch"),
         Wait("extractConfirmation", "next")>>

\* reset(): its catch block returns the error result without a further wait.
resetBlocks(throws) ==
    <<Wait("browser.close", throws), Wait("unlinkSync", throws)>>

bookBlocks ==
    fillFormBlocks
    \o <<Wait("waitForTimeout(2000)", "raise"), Check("this.page", "raise")>>
    \o dismissCookieBannersBlocks("catch")
    \o <<Wait("evaluate(scroll)", "catch"),
         Wait("waitForTimeout(1000)", "catch"),
         Loop("nextSelectors", Len(nextSelectors), 1),
         Wait("evaluate(click next)", "catch"),
         Wait("waitForLoadState(domcontentloaded)", "catch"),
         Wait("waitForTimeout(3000)", "catch")>>
    \o dismissCookieBannersBlocks("catch")
    \o <<Wait("screenshot(review)", "catch"),
         Wait("evaluate(scroll again)", "catch"),
         Wait("waitForTimeout(500)", "catch"),
         Loop("submitSelectors", Len(submitSelectors), 1),
         Wait("evaluate(click submit)", "catch"),
         Wait("waitForLoadState(domcontentloaded) after submit", "catch"),
         Wait("waitForTimeout(5000)", "catch"),
         Wait("screenshot(confirmation)", "catch"),
         Wait("extractConfirmation", "next")>>
    \o resetBlocks("next")

Invocations == {"fillForm", "submit", "book", "takeScreenshot", "reset"}

BlocksOf(op) ==
    IF op = "fillForm" THEN fillFormBlocks
    ELSE IF op = "submit" THEN submitBlocks
    ELSE IF op = "book" THEN bookBlocks
    ELSE IF op = "takeScreenshot" THEN takeScreenshotBlocks
    ELSE resetBlocks("return")

\* The block the invocation is at.
Block == BlocksOf(run.op)[run.pc]

\* Control goes k blocks ahead; past the last block the operation returns its
\* success result.
ahead(r, k) ==
    IF r.pc + k > Len(BlocksOf(r.op))
    THEN [r EXCEPT !.status = "success"]
    ELSE [r EXCEPT !.pc = @ + k, !.i = 1]

\* An exception, or a failed check, with disposition d.
leave(r, d) ==
    [r EXCEPT !.status = IF d = "raise" THEN "raised"
                         ELSE IF d = "return" THEN "error"
                         ELSE "catching"]

\* A loop that starts over when none of its candidates was found.
missedRetry(r, b) ==
    IF r.i < b.n THEN [r EXCEPT !.i = @ + 1] ELSE [r EXCEPT !.i = 1]

\* The awaited call found nothing (or threw inside the loop's try block): on
\* to the next candidate, and after the last one on to what follows the loop.
missed(r, b) ==
    IF r.i < b.n THEN [r EXCEPT !.i = @ + 1]
    ELSE IF b.none = "go" THEN ahead(r, b.miss)
    ELSE leave(r, b.none)

LiveUnchanged ==
    UNCHANGED <<endpointExposed, canLaunch, session, browsers, launches, browser, context,
                page, opened, sinceFill, last, calc, race>>

\* The awaited call returns what the code looks for.
RunHit ==
    /\ run.status = "running"
    /\ run' = (IF Block.stop \/ run.i = Block.n THEN ahead(run, Block.hit)
               ELSE [run EXCEPT !.i = @ + 1])
    /\ LiveUnchanged

\* The awaited call returns null, or not what the code looks for.
RunMiss ==
    /\ run.status = "running"
    /\ run' = missed(run, Block)
    /\ LiveUnchanged

\* The awaited call rejects (a timeout included).
RunThrow ==
    /\ run.status = "running"
    /\ run' = (IF Block.throws = "next" THEN missed(run, Block)
               ELSE leave(run, Block.throws))
    /\ LiveUnchanged

\* The catch block of fillForm, submit and book: a screenshot, then the error
\* result; a screenshot that rejects leaves the operation.
RunCatch ==
    /\ run.status = "catching"
    /\ \E ok \in BOOLEAN :
          run' = [run EXCEPT !.status = IF ok THEN "error" ELSE "raised"]
    /\ LiveUnchanged

LiveInit ==
    /\ endpointExposed = TRUE
    /\ canLaunch = TRUE
    /\ session = NoSession
    /\ browsers = [b \in BrowserIds |-> ClosedBrowser]
    /\ launches = 0
    /\ browser = 0
    /\ context = 0
    /\ page = 0
    /\ opened = {}
    /\ sinceFill = "none"
    /\ last = Unobserved("init")
    /\ calc = NoCalc
    /\ race = NoRace
    /\ run \in {[op |-> op, pc |-> 1, i |-> 1, status |-> "running"] : op \in Invocations}

LiveNext ==
    \/ RunHit
    \/ RunMiss
    \/ RunThrow
    \/ RunCatch

\* Every awaited call returns or times out.
LiveSpec == LiveInit /\ [][LiveNext]_vars /\ WF_vars(LiveNext)

----------------------------------------------------------------------------
\* Properties.

\* The ensureBrowser calls of the last operation.
Acquires == {last.acq[i] : i \in 1..Len(last.acq)}

C2_PipelineOnlyAfterFill ==
    (last.op \in {"submit", "book"} /\ last.out.reached) => last.out.onFilled

\* C3: after a submit() that returned success, a further submit() with no
\* successful fill in between clicks neither control.
C3_NoDuplicateSubmission ==
    [][(sinceFill = "ok" /\ last'.op = "submit")
         => (~last'.out.clickedNext /\ ~last'.out.clickedSubmit)]_vars

\* C4: after a submission (submit(), or the submit stage of book()) that ended
\* in an error result, a following submit() with no successful fill in between
\* clicks neither control.
C4_NoResubmitAfterFailure ==
    [][(sinceFill = "err" /\ last'.op = "submit")
         => (~last'.out.clickedNext /\ ~last'.out.clickedSubmit)]_vars

\* C5: reset() always returns success and leaves no descriptor; a reset()
\* right after a reset(), or with no browser handle and no descriptor, returns
\* success and changes nothing.
C5_ResetIdempotent ==
    /\ [](last.op = "reset" => (last.result = "success" /\ session.kind = "none"
                                /\ browser = 0 /\ context = 0 /\ page = 0))
    /\ [][(/\ last'.op = "reset"
           /\ (last.op = "reset" \/ (browser = 0 /\ session.kind = "none")))
          => (/\ last'.result = "success"
              /\ UNCHANGED <<session, browsers, launches, browser, context, page,
                             opened>>)]_vars

\* C5 happens: a reset() ran with no browser handle and no descriptor, after
\* browsers had been launched.
C5_Witness ==
    /\ last.op = "reset"
    /\ last.pre = "none"
    /\ last.held = 0
    /\ last.result = "success"
    /\ launches > 0

\* C6: after a reset() that returned success no descriptor is on disk and the
\* session's browser (the one the descriptor named, the one the client held)
\* is no longer running.
C6_ResetClosesSession ==
    [][(last'.op = "reset" /\ last'.result = "success")
         => (/\ session'.kind = "none"
             /\ \A b \in BrowserIds :
                   (/\ browsers[b].alive
                    /\ (browser = b \/ (session.kind = "session"
                                        /\ session.wsEndpoint = b)))
                   => ~browsers'[b].alive)]_vars

\* C7: an ensureBrowser that finds a descriptor file and does not return a
\* reconnected page launches a browser, returns that browser's open page, and
\* leaves on disk no descriptor of the old session (none, or the new one).
C7_ReconnectFailureFallsThrough ==
    \A a \in Acquires :
        (a.found /= "none" /\ ~a.reconnected) =>
            /\ a.fresh /= 0
            /\ a.got.alive /\ a.got.hasPage
            /\ a.after = (IF endpointExposed THEN SessionInfo(a.fresh) ELSE NoSession)

\* C7 happens: the connect returned, the browser had no page, and
\* ensureBrowser launched a new browser.
C7_Witness ==
    \E a \in Acquires :
        a.found = "session" /\ a.connected /\ ~a.reconnected /\ a.fresh /= 0

\* C8: after every launch by ensureBrowser the descriptor on disk names the
\* launched browser and has loggedIn=false and formFilled=false.
C8_LaunchWritesDescriptor ==
    \A a \in Acquires : a.fresh /= 0 => a.after = SessionInfo(a.fresh)

\* C9: at most one browser that this client object launched or connected to
\* is running.
C9_OneSessionPerProcess == Cardinality(opened) <= 1

\* C10: within one fillForm() or book(), login's page, the page the form is
\* filled on and the page book() clicks on are the same page.
C10_OnePageEndToEnd ==
    last.op \in {"fillForm", "book"} =>
        Cardinality({last.pages.loginPage, last.pages.fillPage,
                     last.pages.submitPage} \ {0}) <= 1

\* C11: the descriptor on disk reflects the last step: after a fillForm() whose
\* login returned true the descriptor exists and has loggedIn=true, and after a
\* fillForm() that returned success it exists and has formFilled=true.
C11_DescriptorReflectsProgress ==
    /\ (last.op = "fillForm" /\ last.out.login = "ok")
          => (session.kind = "session" /\ session.loggedIn)
    /\ (last.op = "fillForm" /\ last.result = "success")
          => (session.kind = "session" /\ session.formFilled)

\* C12: when the login() of a fillForm() runs on a reconnected session whose
\* descriptor already says loggedIn=true, it does not end with the
\* missing-username-field error.
C12_LoginIdempotent ==
    (/\ last.op = "fillForm"
     /\ Len(last.acq) = 2
     /\ last.acq[2].reconnected
     /\ last.acq[2].after.loggedIn)
        => last.out.login /= "noUsername"

\* C13: fillForm, submit and book hand every failure back as a result object;
\* in particular a login that fails (no username field, no password field,
\* timeout of the race) ends the operation in an error result with a
\* screenshot, never in a rejected promise.
C13_FailuresAreStructured ==
    last.op \in {"fillForm", "submit", "book"} =>
        /\ last.result \in {"success", "error"}
        /\ last.out.login \in {"noUsername", "noPassword", "timeout"}
              => (last.result = "error" /\ last.out.screenshot)

\* C14: every result object that fillForm, submit, book or takeScreenshot
\* returns after a page was acquired carries a screenshot.
C14_ResultsCarryScreenshot ==
    (/\ last.op \in {"fillForm", "submit", "book", "takeScreenshot"}
     /\ last.result \in {"success", "error"}
     /\ Len(last.acq) > 0)
        => last.out.screenshot

\* A form stage of fillForm has returned.
FormCall == calc.fn = "fillForm" /\ calc.done

\* The controls the last form stage looked for.
Attempted == {calc.out.form.attempted[i] : i \in 1..Len(calc.out.form.attempted)}

\* Is the control f one that the form stage under way has a value for?
HasValue(f) ==
    \/ f /= "specialInstructions"
    \/ TruthyText(calc.in.options.specialInstructions)
    \/ TruthyText(calc.in.options.doorCode)

C16_SpecialInstructions ==
    FormCall =>
        LET o    == calc.in.options
            text == calc.out.specialInstructions
        IN  /\ TruthyText(o.specialInstructions) => text = o.specialInstructions
            /\ (~TruthyText(o.specialInstructions) /\ TruthyText(o.doorCode))
                  => text = Some("Door code * " \o o.doorCode[1] \o " #")
            /\ (~TruthyText(o.specialInstructions) /\ o.doorCode = Some("123456789"))
                  => text = Some("Door code * 123456789 #")
            /\ (~TruthyText(o.specialInstructions) /\ ~TruthyText(o.doorCode))
                  => /\ ~TruthyText(text)
                     /\ "specialInstructions" \notin Attempted
                     /\ calc.out.form.values["specialInstructions"] = Undefined
            /\ (TruthyText(text) /\ calc.out.result = "success"
                    /\ "specialInstructions" \in calc.in.site.present)
                  => calc.out.form.values["specialInstructions"] = text

\* C16 happens: explicit instructions and a door code were both given, and the
\* control was filled with the explicit instructions.
C16_Witness ==
    /\ FormCall
    /\ TruthyText(calc.in.options.doorCode)
    /\ TruthyText(calc.in.options.specialInstructions)
    /\ calc.out.result = "success"
    /\ calc.out.form.values["specialInstructions"] = calc.in.options.specialInstructions

\* The UK wall clock of the call under way, and whether a day is a weekday.
UKNow == ukTime(calc.in.now, calc.in.uk)
IsWeekday(d) == d % 7 \notin {0, 6}

\* C17: getSmartDate returns the UK-local day itself when the UK-local hour is
\* below 13 on a weekday, and otherwise the first weekday after the skipped
\* days (from the next day on when the hour is 13 or more); what it returns is
\* always a weekday.
C17_SmartDate ==
    (calc.fn = "getSmartDate" /\ calc.done) =>
        /\ IsWeekday(calc.out)
        /\ (UKNow.hour < 13 /\ IsWeekday(UKNow.day)) => calc.out = UKNow.day
        /\ UKNow.hour >= 13 =>
              /\ calc.out > UKNow.day
              /\ \A d \in (UKNow.day + 1)..(calc.out - 1) : ~IsWeekday(d)

\* C18: getSmartEarliestTime returns (h+1):00 when the UK-local hour h is in
\* 12..16 and "12:00" otherwise.
C18_SmartEarliestTime ==
    (calc.fn = "getSmartEarliestTime" /\ calc.done) =>
        /\ calc.out = (IF UKNow.hour \in 12..16
                       THEN ToString(UKNow.hour + 1) \o ":00" ELSE "12:00")
        /\ UKNow.hour = 14 => calc.out = "15:00"
        /\ UKNow.hour \in {9, 17, 18} => calc.out = "12:00"

\* C18 happens: at 17 h UK time, the end of the window, "12:00" was returned,
\* on a summer day (the UK clock one hour ahead of UTC).
C18_Witness ==
    /\ calc.fn = "getSmartEarliestTime"
    /\ calc.done
    /\ calc.in.uk = 1
    /\ UKNow.hour = 17
    /\ calc.out = "12:00"

\* C19: in the FormState of a success result, a field whose control was not
\* found on the page is not reported (it is undefined there).
C19_MissReflectedInFormState ==
    (FormCall /\ calc.out.result = "success") =>
        \A f \in (DOMAIN calc.out.formState[1]) \cap FieldNames :
            f \notin calc.in.site.present => calc.out.formState[1][f] = Undefined

\* C20: the form stage returns success only if the "different collection
\* address" radio was selected, by a selector or by the scan.
C20_SuccessNeedsDifferentAddress ==
    (FormCall /\ calc.out.result = "success") => calc.out.form.selected

\* C21: submit() never throws: every exception of its pipeline, from acquiring
\* the page on, ends in an error result, and the error result of an exception
\* carries a screenshot.
C21_SubmitNeverThrows ==
    last.op = "submit" =>
        /\ last.result \in {"success", "error"}
        /\ (last.result = "error" /\ last.out.reached) => last.out.screenshot

\* C22: a fillForm that returns an error result or throws leaves no descriptor
\* with formFilled = true, also after an earlier fillForm that succeeded.
C22_FailedFillClearsFormFilled ==
    (last.op = "fillForm" /\ last.result \in {"error", "throw"})
        => ~(session.kind = "session" /\ session.formFilled)

\* C23: submit() and book() return success only after the review control and
\* then the final-submit control were both clicked.
C23_SuccessNeedsBothClicks ==
    (last.op \in {"submit", "book"} /\ last.result = "success")
        => (last.out.clickedNext /\ last.out.clickedSubmit)

\* A final-submit step of book() or submit() has run.
FinalClickCall == calc.fn \in {"bookFinalClick", "submitFinalClick"} /\ calc.done

RanFor(v) ==
    SelectSeq(calc.out.ran, LAMBDA r : r.variant = v)

\* C25: fillField runs the lookups of each label variant in the fixed order,
\* the first lookup that finds a control fills it and ends the call, and a
\* later label variant is tried only after all lookups of the one before it
\* ran and found nothing: an exception in one lookup does not skip the
\* remaining lookups of its variant.
C25_ResolverOrder ==
    (calc.fn = "fillField" /\ calc.done) =>
        /\ \A v \in 1..2 :
              \A i \in 1..Len(RanFor(v)) : RanFor(v)[i].strategy = Strategies[i]
        /\ \A i \in 1..Len(calc.out.ran) :
              (calc.in.variants[calc.out.ran[i].variant]
                  [CHOOSE k \in 1..Len(Strategies) :
                      Strategies[k] = calc.out.ran[i].strategy] = "found")
                  => (i = Len(calc.out.ran) /\ calc.out.filled = Some(calc.out.ran[i]))
        /\ RanFor(2) /= <<>> => Len(RanFor(1)) = Len(Strategies)

\* The positions of the step x among the steps of the last login call.
StepAt(x) == {i \in 1..Len(calc.out.steps) : calc.out.steps[i] = x}

\* C26: login fills the password only after the username, persists
\* loggedIn=true only after the race resolved, as its last step, and when it
\* fails for a missing username field, a missing password field or a timeout
\* of the race it leaves the descriptor as it was and takes a screenshot as
\* the last thing before it throws.
C26_LoginOrder ==
    (calc.fn = "login" /\ calc.done) =>
        /\ \A i \in StepAt("fillPassword") : \E j \in StepAt("fillUsername") : j < i
        /\ \A i \in StepAt("race") : \E j \in StepAt("fillPassword") : j < i
        /\ \A i \in StepAt("updateSession") :
              /\ i = Len(calc.out.steps)
              /\ calc.in.site.race /= "timeout"
              /\ \E j \in StepAt("race") : j < i
        /\ calc.out.threw = "none" <=> StepAt("updateSession") /= {}
        /\ calc.out.session /= calc.in.session =>
              /\ calc.out.threw = "none"
              /\ calc.out.session = [calc.in.session EXCEPT !.loggedIn = TRUE]
        /\ calc.out.threw \in {"noUsername", "noPassword", "timeout"} =>
              /\ calc.out.session = calc.in.session
              /\ calc.out.steps[Len(calc.out.steps)] = "errorScreenshot"

\* C26 happens: both fields were filled, the race timed out on a session that
\* was not logged in, and login threw with the descriptor untouched.
C26_Witness ==
    /\ calc.fn = "login"
    /\ calc.done
    /\ calc.in.session = SessionInfo(1)
    /\ calc.in.site.race = "timeout"
    /\ StepAt("fillPassword") /= {}
    /\ calc.out.threw = "timeout"
    /\ ~calc.out.session.loggedIn

\* The controls fillForm works on after the step that rejects.
AfterFailure ==
    CASE calc.in.site.fail = "radioScan" -> FieldNames
      [] calc.in.site.fail = "date" -> {"date", "earliestTime"}
      [] calc.in.site.fail = "time" -> {"earliestTime"}
      [] OTHER -> {}

DismissCall == calc.fn = "dismissCookieBanners" /\ calc.done

\* A page with no overlay and no button that a cookie selector matches.
NoBanner(p) == p.overlay = "none" /\ p.inside = {} /\ p.outside = {}

\* The buttons the selector loop of a call on page p can click: those still
\* on the page after the first removal whose query and click return.
Clickable(p) ==
    ((IF calc.in.env.evaluate = "throws" THEN p.inside ELSE {}) \cup p.outside)
        \ calc.in.env.throws

C29_UpdateSessionMerge ==
    (calc.fn = "updateSession" /\ calc.done) =>
        LET s == calc.in.session
            u == calc.in.updates
        IN  /\ calc.out.twice = calc.out.once
            /\ s.kind = "none" => calc.out.once = NoSession
            /\ s.kind = "session" =>
                  /\ calc.out.once.kind = "session"
                  /\ calc.out.once.wsEndpoint = s.wsEndpoint
                  /\ calc.out.once.createdAt = s.createdAt
                  /\ \A f \in {"loggedIn", "formFilled"} :
                        calc.out.once[f] = IF f \in DOMAIN u THEN u[f] ELSE s[f]

\* C29 happens: formFilled was merged into a descriptor that had loggedIn
\* set, and loggedIn and the endpoint stayed.
C29_Witness ==
    /\ calc.fn = "updateSession"
    /\ calc.done
    /\ calc.in.session = [SessionInfo(1) EXCEPT !.loggedIn = TRUE]
    /\ calc.in.updates = [formFilled |-> TRUE]
    /\ calc.out.once = [SessionInfo(1) EXCEPT !.loggedIn = TRUE, !.formFilled = TRUE]
    /\ calc.out.twice = calc.out.once

\* The options of the last date step whose text contains the full long-format
\* rendering of the date asked for.
FullMatches ==
    {i \in 1..Len(calc.out.options) :
        includes(toLowerCase(calc.out.options[i].text),
                 toLowerCase(toLocaleDateString(calc.in.date, calc.in.comma)))}

\* C30: when the date dropdown has an option whose text contains the full
\* long-format rendering of the date asked for, that option is the one
\* selected when the step ends: the pass that matches by day number and month
\* name does not replace it by an option of another day.
C30_FullMatchWins ==
    (calc.fn = "selectDate" /\ calc.done /\ FullMatches /= {}) =>
        /\ calc.out.selected \in FullMatches
        /\ calc.out.options[calc.out.selected].day = calc.in.date

\* C31: extractConfirmation never throws and always returns a record in which
\* the confirmation number, the total charges and the collection date are
\* each the first match of their patterns or null, and the page text is
\* present and at most 3000 characters long, also when page.evaluate rejects.
C31_ExtractionYieldsRecord ==
    (calc.fn = "extractConfirmation" /\ calc.done) =>
        LET hits == {i \in DOMAIN calc.in.confirmation :
                        calc.in.confirmation[i] /= Undefined}
        IN  /\ ~calc.out.threw
            /\ calc.out.confirmationNumber =
                  (IF hits = {} THEN Null
                   ELSE calc.in.confirmation[CHOOSE i \in hits : \A j \in hits : i <= j])
            /\ calc.out.totalCharges \in {Null, calc.in.charges}
            /\ calc.out.collectionDate \in {Null, calc.in.date}
            /\ calc.out.pageText /= Undefined
            /\ calc.out.pageText[1] <= 3000

\* C34: getSmartDate depends only on the instant and the Europe/London wall
\* clock: for every UTC offset of the host and every hour of the day it
\* returns the calendar day of the weekday-adjusted UK-local target date.
C34_SmartDateHostIndependent ==
    (calc.fn = "getSmartDate" /\ calc.done) =>
        /\ calc.out = skipWeekends(IF UKNow.hour >= 13 THEN UKNow.day + 1 ELSE UKNow.day)
        /\ \A host \in HostZones :
              calc.out = getSmartDate(calc.in.now, calc.in.uk, host)

\* The time string of the full hour h.
OClock(h) == ToString(h) \o ":00"

C36_BookTeardown ==
    (last.op = "book" /\ last.stage = "submit") =>
        LET p == last.pages.submitPage
        IN  IF last.result = "success"
            THEN /\ \A b \in {last.pages.loginPage, last.pages.fillPage, p} \ {0} :
                        ~browsers[b].alive
                 /\ browser = 0 /\ context = 0 /\ page = 0
                 /\ session = NoSession
            ELSE /\ last.result = "error"
                 /\ browsers[p].alive
                 /\ browser = p /\ context = p /\ page = p
                 /\ p \in opened
                 /\ endpointExposed => session.kind = "session"

\* Every process has finished what it started.
AllIdle == \A p \in Procs : race.proc[p].pc = "idle"

\* C33: when the invocations on one descriptor file run strictly one after the
\* other, no update is lost: the file holds what each invocation leaves when
\* it runs alone, no write replaces anything the writer had not read, and no
\* write brings a deleted descriptor back.  (Overlapping invocations can do
\* both: see the witness.)
C33_SerializedKeepsUpdates ==
    (race.serial /\ AllIdle) =>
        /\ session = race.expected
        /\ ~race.lost
        /\ ~race.back

\* C33 happens: overlapping invocations have ended with a write lost (loggedIn
\* and formFilled were both written, one of them is not in the file, or a new
\* descriptor was replaced by an old one) and, in the same history, a deleted
\* descriptor written back.
C33_Witness ==
    /\ AllIdle
    /\ ~race.serial
    /\ race.lost
    /\ race.back

\* The invocation has finished: success result, error result or raised error.
Finished == run.status \in {"success", "error", "raised"}

\* C32: every fillForm, submit, book, takeScreenshot and reset invocation
\* eventually finishes when every awaited call returns or times out; until
\* then every step moves to the next candidate of the same loop or to a later
\* step, so no candidate is visited twice and nothing goes back.
C32_InvocationsFinish ==
    /\ <>Finished
    /\ [][run.status = "running" =>
            \/ run'.status /= "running"
            \/ run'.pc > run.pc
            \/ run'.pc = run.pc /\ run'.i > run.i]_vars
    /\ [][(run.status = "catching" => Finished') /\ ~Finished]_vars

\* C32 happens: a book() went through all its steps to the success result.
C32_Witness ==
    /\ run.op = "book"
    /\ run.status = "success"

====
